---- MODULE Spec2Model ----
(***************************************************************************)
(* Tax liability calculation engine of tesla-tax-tool (TaxCalculator in    *)
(* tax_calculator.py and the 1099-B reconciliation in                      *)
(* form_parsers/f1099b_parser.py).                                         *)
(*                                                                         *)
(* Units.  Money amounts are whole dollars.  A rate r of the source is the *)
(* integer 1000 * r (per mille), so a tax, which the source computes as    *)
(* amount * rate, is an integer number of mills (1/1000 dollar):           *)
(* 16,914.00 dollars is 16914000.  The arithmetic is exact; the rounding   *)
(* of the source's binary floating point is not modelled.                  *)
(***************************************************************************)
EXTENDS Integers, Sequences, FiniteSets, TLC

VARIABLES
    current_year,            \* self.current_year
    filing_status,           \* self.filing_status
    tax_brackets,            \* self.tax_brackets: sequence of <<threshold, rate>>
    capital_gains_brackets,  \* self.capital_gains_brackets
    standard_deduction,      \* self.standard_deduction
    niit_threshold,          \* self.niit_threshold
    ca_tax_brackets,         \* self.ca_tax_brackets
    ca_standard_deduction,   \* self.ca_standard_deduction
    op,                      \* name of the method called last
    args,                    \* its arguments
    ret                      \* its return value

calc == <<current_year, filing_status, tax_brackets, capital_gains_brackets,
          standard_deduction, niit_threshold, ca_tax_brackets,
          ca_standard_deduction>>

vars == <<current_year, filing_status, tax_brackets, capital_gains_brackets,
          standard_deduction, niit_threshold, ca_tax_brackets,
          ca_standard_deduction, op, args, ret>>

(***************************************************************************)
(* Bounds of the model                                                     *)
(***************************************************************************)
\* number of grid incomes drawn besides the ones next to a bracket threshold
MaxGrid == 8
\* distance of two grid incomes
GridStep == 200000

(***************************************************************************)
(* Helpers                                                                 *)
(***************************************************************************)
\* An Optional value of the source: None, or Some(v) with the value Value(o).
None == <<>>

Some(v) == <<v>>

Value(o) == o[1]

\* dict.get(key, default)
Get(r, key, default) == IF key \in DOMAIN r THEN r[key] ELSE default

Min(a, b) == IF a <= b THEN a ELSE b

Max(a, b) == IF a >= b THEN a ELSE b

(***************************************************************************)
(* TaxCalculator.__init__ and the 2025 tables                              *)
(***************************************************************************)
VALID_FILING_STATUSES == {"single", "mfj", "mfs", "hoh"}

niit_rate == 38

ca_mental_health_threshold == 1000000

ca_mental_health_rate == 10

brackets_by_status ==
    [single |-> << <<0, 100>>, <<11925, 120>>, <<48475, 220>>, <<103350, 240>>,
                   <<197300, 320>>, <<250525, 350>>, <<626350, 370>> >>,
     mfj    |-> << <<0, 100>>, <<23850, 120>>, <<96950, 220>>, <<206700, 240>>,
                   <<394600, 320>>, <<501050, 350>>, <<751600, 370>> >>,
     mfs    |-> << <<0, 100>>, <<11925, 120>>, <<48475, 220>>, <<103350, 240>>,
                   <<197300, 320>>, <<250525, 350>>, <<375800, 370>> >>,
     hoh    |-> << <<0, 100>>, <<17000, 120>>, <<64850, 220>>, <<103350, 240>>,
                   <<197300, 320>>, <<250500, 350>>, <<626350, 370>> >>]

ltcg_by_status ==
    [single |-> << <<0, 0>>, <<48350, 150>>, <<533400, 200>> >>,
     mfj    |-> << <<0, 0>>, <<96700, 150>>, <<600050, 200>> >>,
     mfs    |-> << <<0, 0>>, <<48350, 150>>, <<300000, 200>> >>,
     hoh    |-> << <<0, 0>>, <<64750, 150>>, <<566700, 200>> >>]

std_deduction_by_status ==
    [single |-> 15000, mfj |-> 30000, mfs |-> 15000, hoh |-> 22500]

niit_by_status ==
    [single |-> 200000, mfj |-> 250000, mfs |-> 125000, hoh |-> 200000]

ca_brackets_by_status ==
    [single |-> << <<0, 10>>, <<10756, 20>>, <<25499, 40>>, <<40245, 60>>,
                   <<55866, 80>>, <<70606, 93>>, <<360659, 103>>,
                   <<432787, 113>>, <<721314, 123>> >>,
     mfj    |-> << <<0, 10>>, <<21512, 20>>, <<50998, 40>>, <<80490, 60>>,
                   <<111732, 80>>, <<141212, 93>>, <<721318, 103>>,
                   <<865574, 113>>, <<1442628, 123>> >>,
     mfs    |-> << <<0, 10>>, <<10756, 20>>, <<25499, 40>>, <<40245, 60>>,
                   <<55866, 80>>, <<70606, 93>>, <<360659, 103>>,
                   <<432787, 113>>, <<721314, 123>> >>,
     hoh    |-> << <<0, 10>>, <<21527, 20>>, <<51000, 40>>, <<65744, 60>>,
                   <<81364, 80>>, <<96104, 93>>, <<490493, 103>>,
                   <<588617, 113>>, <<980987, 123>> >>]

ca_std_deduction_by_status ==
    [single |-> 5540, mfj |-> 11080, mfs |-> 5540, hoh |-> 11080]

\* The tax years the calculator is constructed for: the year of the
\* hardcoded tables (_load_tax_brackets takes the first branch).
TaxYears == {2025}

\* TaxCalculator(tax_year, filing_status): the state after construction.
Init ==
    /\ current_year \in TaxYears
    /\ filing_status \in VALID_FILING_STATUSES
    /\ tax_brackets = brackets_by_status[filing_status]
    /\ capital_gains_brackets = ltcg_by_status[filing_status]
    /\ standard_deduction = std_deduction_by_status[filing_status]
    /\ niit_threshold = niit_by_status[filing_status]
    /\ ca_tax_brackets = ca_brackets_by_status[filing_status]
    /\ ca_standard_deduction = ca_std_deduction_by_status[filing_status]
    /\ op = "__init__"
    /\ args = [tax_year |-> current_year, filing_status |-> filing_status]
    /\ ret = None

(***************************************************************************)
(* Bracket engine                                                          *)
(***************************************************************************)
\* The loop of calculate_progressive_ordinary_tax (and the identical loop of
\* calculate_ca_progressive_tax) from bracket i on.
RECURSIVE progressive_loop(_, _, _, _, _)
progressive_loop(brackets, i, remaining_income, total_tax, bracket_details) ==
    IF i > Len(brackets) \/ remaining_income <= 0
    THEN [tax |-> total_tax, details |-> bracket_details]
    ELSE LET threshold == brackets[i][1]
             rate == brackets[i][2]
             bracket_width == IF i + 1 <= Len(brackets)
                              THEN brackets[i + 1][1] - threshold
                              ELSE remaining_income
             taxable_in_bracket == Min(remaining_income, bracket_width)
             tax_in_bracket == taxable_in_bracket * rate
         IN  progressive_loop(brackets, i + 1,
                 remaining_income - taxable_in_bracket,
                 total_tax + tax_in_bracket,
                 Append(bracket_details,
                        [bracket_floor |-> threshold, rate |-> rate,
                         income_in_bracket |-> taxable_in_bracket,
                         tax_in_bracket |-> tax_in_bracket]))

\* The body of calculate_progressive_ordinary_tax over a given bracket table.
apply_progressive(income, brackets) ==
    IF income <= 0
    THEN [tax |-> 0, details |-> <<>>]
    ELSE progressive_loop(brackets, 1, income, 0, <<>>)

\* calculate_progressive_ordinary_tax with each bracket taken as wide as its
\* upper threshold (bracket_width = next_threshold).
RECURSIVE progressive_loop_wide(_, _, _, _, _)
progressive_loop_wide(brackets, i, remaining_income, total_tax, bracket_details) ==
    IF i > Len(brackets) \/ remaining_income <= 0
    THEN [tax |-> total_tax, details |-> bracket_details]
    ELSE LET threshold == brackets[i][1]
             rate == brackets[i][2]
             bracket_width == IF i + 1 <= Len(brackets)
                              THEN brackets[i + 1][1]
                              ELSE remaining_income
             taxable_in_bracket == Min(remaining_income, bracket_width)
             tax_in_bracket == taxable_in_bracket * rate
         IN  progressive_loop_wide(brackets, i + 1,
                 remaining_income - taxable_in_bracket,
                 total_tax + tax_in_bracket,
                 Append(bracket_details,
                        [bracket_floor |-> threshold, rate |-> rate,
                         income_in_bracket |-> taxable_in_bracket,
                         tax_in_bracket |-> tax_in_bracket]))

calculate_progressive_ordinary_tax_wide(taxable_ordinary_income) ==
    IF taxable_ordinary_income <= 0
    THEN [tax |-> 0, details |-> <<>>]
    ELSE progressive_loop_wide(tax_brackets, 1, taxable_ordinary_income, 0,
                               <<>>)

calculate_progressive_ordinary_tax(taxable_ordinary_income) ==
    apply_progressive(taxable_ordinary_income, tax_brackets)

\* The loop of calculate_progressive_ltcg_tax from bracket i on.  The top
\* bracket has next_threshold = float('inf'): it is never skipped and its room
\* is unbounded.
RECURSIVE ltcg_loop(_, _, _, _, _, _)
ltcg_loop(brackets, i, remaining_gains, income_already_used, total_tax, bracket_details) ==
    IF i > Len(brackets) \/ remaining_gains <= 0
    THEN [tax |-> total_tax, details |-> bracket_details]
    ELSE LET threshold == brackets[i][1]
             rate == brackets[i][2]
             is_top == ~(i + 1 <= Len(brackets))
             next_threshold == brackets[i + 1][1]
             bracket_start == Max(threshold, income_already_used)
             taxable_in_bracket ==
                 IF is_top THEN remaining_gains
                 ELSE Min(remaining_gains, next_threshold - bracket_start)
             tax_in_bracket == taxable_in_bracket * rate
         IN  IF ~is_top /\ income_already_used >= next_threshold
             THEN ltcg_loop(brackets, i + 1, remaining_gains,
                            income_already_used, total_tax, bracket_details)
             ELSE ltcg_loop(brackets, i + 1,
                      remaining_gains - taxable_in_bracket,
                      income_already_used + taxable_in_bracket,
                      total_tax + tax_in_bracket,
                      Append(bracket_details,
                             [bracket_floor |-> threshold, rate |-> rate,
                              gains_in_bracket |-> taxable_in_bracket,
                              tax_in_bracket |-> tax_in_bracket]))

\* The body of calculate_progressive_ltcg_tax over a given bracket table.
apply_stacked(ordinary_income, gains, brackets) ==
    IF gains <= 0
    THEN [tax |-> 0, details |-> <<>>]
    ELSE ltcg_loop(brackets, 1, gains, ordinary_income, 0, <<>>)

\* calculate_progressive_ltcg_tax that forgets the ordinary income below the
\* gains (income_already_used = 0).
calculate_progressive_ltcg_tax_unstacked(taxable_ordinary_income, long_term_gains) ==
    apply_stacked(0, long_term_gains, capital_gains_brackets)

\* calculate_progressive_ltcg_tax that skips a bracket as soon as the income
\* already used reaches its floor (>= threshold instead of >= next_threshold).
RECURSIVE ltcg_loop_floor_skip(_, _, _, _, _, _)
ltcg_loop_floor_skip(brackets, i, remaining_gains, income_already_used, total_tax, bracket_details) ==
    IF i > Len(brackets) \/ remaining_gains <= 0
    THEN [tax |-> total_tax, details |-> bracket_details]
    ELSE LET threshold == brackets[i][1]
             rate == brackets[i][2]
             is_top == ~(i + 1 <= Len(brackets))
             next_threshold == brackets[i + 1][1]
             bracket_start == Max(threshold, income_already_used)
             taxable_in_bracket ==
                 IF is_top THEN remaining_gains
                 ELSE Min(remaining_gains, next_threshold - bracket_start)
             tax_in_bracket == taxable_in_bracket * rate
         IN  IF ~is_top /\ income_already_used >= threshold
             THEN ltcg_loop_floor_skip(brackets, i + 1, remaining_gains,
                      income_already_used, total_tax, bracket_details)
             ELSE ltcg_loop_floor_skip(brackets, i + 1,
                      remaining_gains - taxable_in_bracket,
                      income_already_used + taxable_in_bracket,
                      total_tax + tax_in_bracket,
                      Append(bracket_details,
                             [bracket_floor |-> threshold, rate |-> rate,
                              gains_in_bracket |-> taxable_in_bracket,
                              tax_in_bracket |-> tax_in_bracket]))

calculate_progressive_ltcg_tax_floor_skip(taxable_ordinary_income, long_term_gains) ==
    IF long_term_gains <= 0
    THEN [tax |-> 0, details |-> <<>>]
    ELSE ltcg_loop_floor_skip(capital_gains_brackets, 1, long_term_gains,
                              taxable_ordinary_income, 0, <<>>)

calculate_progressive_ltcg_tax(taxable_ordinary_income, long_term_gains) ==
    apply_stacked(taxable_ordinary_income, long_term_gains,
                  capital_gains_brackets)

\* calculate_niit that taxes the whole excess of the AGI over the threshold.
calculate_niit_excess_only(agi, net_investment_income) ==
    Max(0, agi - niit_threshold) * niit_rate

calculate_niit(agi, net_investment_income) ==
    LET excess_agi == Max(0, agi - niit_threshold)
        niit_base == Min(excess_agi, net_investment_income)
    IN  niit_base * niit_rate

\* calculate_ca_progressive_tax that charges the Mental Health Services rate
\* on the whole taxable income once it is over the threshold.
calculate_ca_progressive_tax_cliff(taxable_income) ==
    IF taxable_income <= 0
    THEN [tax |-> 0, details |-> <<>>]
    ELSE LET r == progressive_loop(ca_tax_brackets, 1, taxable_income, 0, <<>>)
             mental_health_tax ==
                 IF taxable_income > ca_mental_health_threshold
                 THEN taxable_income * ca_mental_health_rate
                 ELSE 0
         IN  [tax |-> r.tax + mental_health_tax, details |-> r.details]

calculate_ca_progressive_tax(taxable_income) ==
    IF taxable_income <= 0
    THEN [tax |-> 0, details |-> <<>>]
    ELSE LET r == progressive_loop(ca_tax_brackets, 1, taxable_income, 0, <<>>)
             mental_health_tax ==
                 IF taxable_income > ca_mental_health_threshold
                 THEN (taxable_income - ca_mental_health_threshold)
                      * ca_mental_health_rate
                 ELSE 0
         IN  [tax |-> r.tax + mental_health_tax, details |-> r.details]

(***************************************************************************)
(* Inputs of the bracket engine                                            *)
(***************************************************************************)
Thresholds(brackets) == {brackets[i][1] : i \in 1..Len(brackets)}

Near(S) == UNION {{t - 1, t, t + 1} : t \in S}

Grid == {k * GridStep : k \in 0..MaxGrid}

OrdinaryIncomes ==
    {-5000, 100000} \cup Grid \cup Near(Thresholds(tax_brackets))

StackBases ==
    {-5000, 0, 20000, 100000, 400000, 700000}
        \cup Thresholds(capital_gains_brackets)

StackGains(x) ==
    {-3000, 0, 1, 30000, 50000} \cup Grid
        \cup {t - x : t \in Thresholds(capital_gains_brackets)}
        \cup {t - x + 1 : t \in Thresholds(capital_gains_brackets)}

CaIncomes ==
    {-5000, 1000000, 1000001, 1100000} \cup Grid
        \cup Near(Thresholds(ca_tax_brackets))

NiitAgis == {0, 124999, 125000, 125001, 200000, 200001, 250000, 250001, 300000}
                \cup Grid

NiitIncomes == {-20000, 0, 1, 50000, 100000, 500000}

(***************************************************************************)
(* The caller.  The calculator is used by one synchronous caller: it makes *)
(* a call when no call is pending (Idle) and takes the result (Return)     *)
(* before the next call.                                                   *)
(***************************************************************************)
Idle == op \in {"__init__", "idle"}

Return ==
    /\ ~Idle
    /\ op' = "idle"
    /\ args' = None
    /\ ret' = None
    /\ UNCHANGED calc

(***************************************************************************)
(* Calls of the bracket engine                                             *)
(***************************************************************************)
CallProgressiveOrdinaryTax ==
    /\ Idle
    /\ \E x \in OrdinaryIncomes :
        /\ op' = "calculate_progressive_ordinary_tax"
        /\ args' = [taxable_ordinary_income |-> x]
        /\ ret' = calculate_progressive_ordinary_tax(x)
        /\ UNCHANGED calc

CallProgressiveLtcgTax ==
    /\ Idle
    /\ \E x \in StackBases : \E y \in StackGains(x) :
        /\ op' = "calculate_progressive_ltcg_tax"
        /\ args' = [taxable_ordinary_income |-> x, long_term_gains |-> y]
        /\ ret' = calculate_progressive_ltcg_tax(x, y)
        /\ UNCHANGED calc

CallNiit ==
    /\ Idle
    /\ \E a \in NiitAgis : \E n \in NiitIncomes :
        /\ op' = "calculate_niit"
        /\ args' = [agi |-> a, net_investment_income |-> n]
        /\ ret' = calculate_niit(a, n)
        /\ UNCHANGED calc

CallCaProgressiveTax ==
    /\ Idle
    /\ \E x \in CaIncomes :
        /\ op' = "calculate_ca_progressive_tax"
        /\ args' = [taxable_income |-> x]
        /\ ret' = calculate_ca_progressive_tax(x)
        /\ UNCHANGED calc

NextEngine ==
    \/ CallProgressiveOrdinaryTax
    \/ CallProgressiveLtcgTax
    \/ CallNiit
    \/ CallCaProgressiveTax
    \/ Return

SpecEngine == Init /\ [][NextEngine]_vars

(***************************************************************************)
(* Liability aggregator and California state tax                           *)
(***************************************************************************)
\* A dollar amount in the unit of the taxes (mills).
Mills(dollars) == dollars * 1000

calculate_marginal_tax_rate(ordinary_income) ==
    LET above == {i \in 1..Len(tax_brackets) :
                      ordinary_income > tax_brackets[i][1]}
    IN  IF above = {} THEN tax_brackets[1][2]
        ELSE tax_brackets[CHOOSE i \in above : \A j \in above : j <= i][2]

calculate_capital_gains_rate(ordinary_income) ==
    LET above == {i \in 1..Len(capital_gains_brackets) :
                      ordinary_income > capital_gains_brackets[i][1]}
    IN  IF above = {} THEN capital_gains_brackets[1][2]
        ELSE capital_gains_brackets[
                 CHOOSE i \in above : \A j \in above : j <= i][2]

\* classify_stock_results that leaves out the ordinary income portions.
RECURSIVE classify_stock_results_no_ordinary(_, _, _)
classify_stock_results_no_ordinary(stock_results, i, acc) ==
    IF i > Len(stock_results) THEN acc
    ELSE LET r == stock_results[i]
             capital_portion == Get(r, "capital_gain_portion", 0)
         IN  classify_stock_results_no_ordinary(stock_results, i + 1,
                 [stock_ordinary_income |-> acc.stock_ordinary_income,
                  stock_long_term_gains |->
                      IF Get(r, "is_long_term", FALSE)
                      THEN acc.stock_long_term_gains + capital_portion
                      ELSE acc.stock_long_term_gains,
                  stock_short_term_gains |->
                      IF Get(r, "is_long_term", FALSE)
                      THEN acc.stock_short_term_gains
                      ELSE acc.stock_short_term_gains + capital_portion])

\* Step 1 of calculate_total_tax_liability: the loop over stock_results from
\* result i on, accumulating the three income categories.
RECURSIVE classify_stock_results(_, _, _)
classify_stock_results(stock_results, i, acc) ==
    IF i > Len(stock_results) THEN acc
    ELSE LET r == stock_results[i]
             ordinary_portion == Get(r, "ordinary_income_portion", 0)
             capital_portion == Get(r, "capital_gain_portion", 0)
         IN  classify_stock_results(stock_results, i + 1,
                 [stock_ordinary_income |->
                      acc.stock_ordinary_income + ordinary_portion,
                  stock_long_term_gains |->
                      IF Get(r, "is_long_term", FALSE)
                      THEN acc.stock_long_term_gains + capital_portion
                      ELSE acc.stock_long_term_gains,
                  stock_short_term_gains |->
                      IF Get(r, "is_long_term", FALSE)
                      THEN acc.stock_short_term_gains
                      ELSE acc.stock_short_term_gains + capital_portion])

\* determine_deduction that itemizes as soon as the itemized total reaches
\* the standard deduction (>= instead of >).
determine_deduction_at_least(itemized_result, deduction_amount) ==
    IF itemized_result # None
    THEN IF Value(itemized_result).total_itemized >= standard_deduction
         THEN [deduction |-> Value(itemized_result).total_itemized,
               deduction_type |-> "Itemized"]
         ELSE [deduction |-> standard_deduction,
               deduction_type |-> "Standard (exceeds itemized)"]
    ELSE IF deduction_amount # None
         THEN [deduction |-> Value(deduction_amount),
               deduction_type |-> "Itemized"]
         ELSE [deduction |-> standard_deduction, deduction_type |-> "Standard"]

\* Step 3 of calculate_total_tax_liability: itemized vs standard.
determine_deduction(itemized_result, deduction_amount) ==
    IF itemized_result # None
    THEN IF Value(itemized_result).total_itemized > standard_deduction
         THEN [deduction |-> Value(itemized_result).total_itemized,
               deduction_type |-> "Itemized"]
         ELSE [deduction |-> standard_deduction,
               deduction_type |-> "Standard (exceeds itemized)"]
    ELSE IF deduction_amount # None
         THEN [deduction |-> Value(deduction_amount),
               deduction_type |-> "Itemized"]
         ELSE [deduction |-> standard_deduction, deduction_type |-> "Standard"]

\* apply_deduction that takes the whole deduction off the long-term gains too.
apply_deduction_twice(total_ordinary_income, total_long_term_gains, deduction) ==
    [taxable_ordinary_income |-> Max(0, total_ordinary_income - deduction),
     taxable_ltcg |-> Max(0, total_long_term_gains - deduction)]

\* The deduction reduces ordinary income first, its excess the long-term gains.
apply_deduction(total_ordinary_income, total_long_term_gains, deduction) ==
    LET taxable_ordinary_income == Max(0, total_ordinary_income - deduction)
        excess_deduction == Max(0, deduction - total_ordinary_income)
        taxable_ltcg == Max(0, total_long_term_gains - excess_deduction)
    IN  [taxable_ordinary_income |-> taxable_ordinary_income,
         taxable_ltcg |-> taxable_ltcg]

\* due_and_refund that reports the net amount unclamped as the amount due.
due_and_refund_unclamped(net_due) ==
    [net_tax_due |-> net_due, refund |-> Max(0, 0 - net_due)]

\* Step 5 of calculate_total_tax_liability (and the end of
\* calculate_ca_state_tax): a net amount split into due and refund.
due_and_refund(net_due) ==
    [net_tax_due |-> Max(0, net_due), refund |-> Max(0, 0 - net_due)]

calculate_total_tax_liability(w2_wages, federal_tax_withheld, stock_results, deduction_amount, estimated_payments, stock_tax_withheld, interest_income, rental_result, itemized_result) ==
    LET stock == classify_stock_results(stock_results, 1,
                     [stock_ordinary_income |-> 0,
                      stock_long_term_gains |-> 0,
                      stock_short_term_gains |-> 0])
        net_rental_income ==
            IF rental_result # None
            THEN Value(rental_result).net_rental_income ELSE 0
        total_ordinary_income ==
            w2_wages + stock.stock_ordinary_income
                + stock.stock_short_term_gains + interest_income
                + net_rental_income
        total_long_term_gains == stock.stock_long_term_gains
        agi == total_ordinary_income + total_long_term_gains
        ded == determine_deduction(itemized_result, deduction_amount)
        taxable == apply_deduction(total_ordinary_income,
                                   total_long_term_gains, ded.deduction)
        ordinary == calculate_progressive_ordinary_tax(
                        taxable.taxable_ordinary_income)
        ltcg == calculate_progressive_ltcg_tax(
                    taxable.taxable_ordinary_income, taxable.taxable_ltcg)
        net_investment_income ==
            total_long_term_gains + stock.stock_short_term_gains
                + interest_income + Max(0, net_rental_income)
        niit == calculate_niit(agi, net_investment_income)
        total_tax == ordinary.tax + ltcg.tax + niit
        total_payments ==
            federal_tax_withheld + estimated_payments + stock_tax_withheld
        net_due == total_tax - Mills(total_payments)
        result == due_and_refund(net_due)
    IN  [w2_wages |-> w2_wages,
         stock_ordinary_income |-> stock.stock_ordinary_income,
         stock_short_term_gains |-> stock.stock_short_term_gains,
         stock_long_term_gains |-> stock.stock_long_term_gains,
         interest_income |-> interest_income,
         net_rental_income |-> net_rental_income,
         total_ordinary_income |-> total_ordinary_income,
         total_long_term_gains |-> total_long_term_gains,
         agi |-> agi,
         deduction_type |-> ded.deduction_type,
         deduction_amount |-> ded.deduction,
         itemized_detail |-> itemized_result,
         rental_detail |-> rental_result,
         taxable_ordinary_income |-> taxable.taxable_ordinary_income,
         taxable_ltcg |-> taxable.taxable_ltcg,
         total_taxable_income |->
             taxable.taxable_ordinary_income + taxable.taxable_ltcg,
         ordinary_tax |-> ordinary.tax,
         ordinary_tax_brackets |-> ordinary.details,
         ltcg_tax |-> ltcg.tax,
         ltcg_tax_brackets |-> ltcg.details,
         niit |-> niit,
         net_investment_income |-> net_investment_income,
         total_tax_liability |-> total_tax,
         federal_tax_withheld |-> federal_tax_withheld,
         stock_tax_withheld |-> stock_tax_withheld,
         estimated_payments |-> estimated_payments,
         total_payments |-> total_payments,
         net_tax_due |-> result.net_tax_due,
         refund |-> result.refund,
         \* total_tax / agi * 100 (dollars per dollar, in percent), kept as
         \* the fraction <<numerator, denominator>> of mills over 10 dollars
         effective_tax_rate |->
             IF agi > 0 THEN <<total_tax, agi * 10>> ELSE <<0, 1>>,
         marginal_ordinary_rate |->
             calculate_marginal_tax_rate(taxable.taxable_ordinary_income),
         marginal_ltcg_rate |->
             calculate_capital_gains_rate(taxable.taxable_ordinary_income)]

\* calculate_ca_state_tax that itemizes whenever an amount is supplied.
calculate_ca_state_tax_any_itemized(w2_state_wages, interest_income, stock_short_term_gains, stock_long_term_gains, net_rental_income, ca_itemized_deductions, state_tax_withheld, ca_sdi_withheld) ==
    LET ca_total_income ==
            w2_state_wages + interest_income + stock_short_term_gains
                + stock_long_term_gains + net_rental_income
        itemize == ca_itemized_deductions # None
        ca_deduction ==
            IF itemize THEN Value(ca_itemized_deductions)
            ELSE ca_standard_deduction
        ca_deduction_type == IF itemize THEN "Itemized" ELSE "Standard"
        ca_taxable_income == Max(0, ca_total_income - ca_deduction)
        ca == calculate_ca_progressive_tax(ca_taxable_income)
        mental_health_tax ==
            IF ca_taxable_income > ca_mental_health_threshold
            THEN (ca_taxable_income - ca_mental_health_threshold)
                 * ca_mental_health_rate
            ELSE 0
        ca_net_due == ca.tax - Mills(state_tax_withheld)
        result == due_and_refund(ca_net_due)
    IN  [ca_total_income |-> ca_total_income,
         ca_deduction_type |-> ca_deduction_type,
         ca_deduction |-> ca_deduction,
         ca_taxable_income |-> ca_taxable_income,
         ca_tax |-> ca.tax,
         ca_brackets |-> ca.details,
         ca_mental_health_tax |-> mental_health_tax,
         ca_state_tax_withheld |-> state_tax_withheld,
         ca_sdi_withheld |-> ca_sdi_withheld,
         ca_net_tax_due |-> result.net_tax_due,
         ca_refund |-> result.refund,
         ca_effective_rate |->
             IF ca_total_income > 0
             THEN <<ca.tax, ca_total_income * 10>> ELSE <<0, 1>>]

calculate_ca_state_tax(w2_state_wages, interest_income, stock_short_term_gains, stock_long_term_gains, net_rental_income, ca_itemized_deductions, state_tax_withheld, ca_sdi_withheld) ==
    LET ca_total_income ==
            w2_state_wages + interest_income + stock_short_term_gains
                + stock_long_term_gains + net_rental_income
        itemize == /\ ca_itemized_deductions # None
                   /\ Value(ca_itemized_deductions) > ca_standard_deduction
        ca_deduction ==
            IF itemize THEN Value(ca_itemized_deductions)
            ELSE ca_standard_deduction
        ca_deduction_type == IF itemize THEN "Itemized" ELSE "Standard"
        ca_taxable_income == Max(0, ca_total_income - ca_deduction)
        ca == calculate_ca_progressive_tax(ca_taxable_income)
        mental_health_tax ==
            IF ca_taxable_income > ca_mental_health_threshold
            THEN (ca_taxable_income - ca_mental_health_threshold)
                 * ca_mental_health_rate
            ELSE 0
        ca_net_due == ca.tax - Mills(state_tax_withheld)
        result == due_and_refund(ca_net_due)
    IN  [ca_total_income |-> ca_total_income,
         ca_deduction_type |-> ca_deduction_type,
         ca_deduction |-> ca_deduction,
         ca_taxable_income |-> ca_taxable_income,
         ca_tax |-> ca.tax,
         ca_brackets |-> ca.details,
         ca_mental_health_tax |-> mental_health_tax,
         ca_state_tax_withheld |-> state_tax_withheld,
         ca_sdi_withheld |-> ca_sdi_withheld,
         ca_net_tax_due |-> result.net_tax_due,
         ca_refund |-> result.refund,
         ca_effective_rate |->
             IF ca_total_income > 0
             THEN <<ca.tax, ca_total_income * 10>> ELSE <<0, 1>>]

(***************************************************************************)
(* Inputs of the aggregator                                                *)
(***************************************************************************)
\* longest stock_results list
MaxStock == 2

StockResults ==
    {[ordinary_income_portion |-> 0, capital_gain_portion |-> 60000,
      is_long_term |-> TRUE],
     [ordinary_income_portion |-> 4000, capital_gain_portion |-> 9000,
      is_long_term |-> FALSE],
     [ordinary_income_portion |-> 1000, capital_gain_portion |-> -20000,
      is_long_term |-> TRUE],
     [ordinary_income_portion |-> 0, capital_gain_portion |-> -7000,
      is_long_term |-> FALSE]}

StockResultLists == UNION {[1..n -> StockResults] : n \in 0..MaxStock}

Wages == {10000, 150000, 260000}

\* <<federal_tax_withheld, estimated_payments, stock_tax_withheld>>
Payments == {<<0, 0, 0>>, <<60000, 0, 0>>, <<0, 5000, 0>>, <<0, 0, 2000>>,
             <<60000, 5000, 2000>>}

\* <<itemized_result, deduction_amount>>
Deductions ==
    {<<None, None>>, <<None, Some(5000)>>, <<None, Some(40000)>>,
     <<Some([total_itemized |-> 10000]), None>>,
     <<Some([total_itemized |-> standard_deduction]), None>>,
     <<Some([total_itemized |-> standard_deduction + 1]), None>>,
     <<Some([total_itemized |-> 45000]), None>>,
     <<Some([total_itemized |-> 45000]), Some(5000)>>,
     <<Some([total_itemized |-> 10000]), Some(40000)>>}

RentalResults == {None, Some([net_rental_income |-> -30000]),
                  Some([net_rental_income |-> 20000])}

InterestIncomes == {0, 3000}

CallTotalTaxLiability ==
    /\ Idle
    /\ \E w \in Wages, p \in Payments, sr \in StockResultLists,
       d \in Deductions, rr \in RentalResults, ii \in InterestIncomes :
        /\ op' = "calculate_total_tax_liability"
        /\ args' = [w2_wages |-> w, federal_tax_withheld |-> p[1],
                    stock_results |-> sr, deduction_amount |-> d[2],
                    estimated_payments |-> p[2], stock_tax_withheld |-> p[3],
                    interest_income |-> ii, rental_result |-> rr,
                    itemized_result |-> d[1]]
        /\ ret' = calculate_total_tax_liability(w, p[1], sr, d[2], p[2], p[3],
                                                ii, rr, d[1])
        /\ UNCHANGED calc

\* calculate_ca_state_tax that stores the deduction it chose in the calculator.
CallCaStateTax_keeps_deduction ==
    /\ Idle
    /\ \E w \in {0, 150000, 1200000}, ii \in InterestIncomes,
       st \in {-7000, 0, 9000}, lt \in {0, 60000},
       nr \in {-30000, 0, 20000},
       it \in {None, Some(5000), Some(ca_standard_deduction),
               Some(ca_standard_deduction + 1), Some(30000)},
       wh \in {0, 10000, 200000}, sdi \in {0, 1800} :
        /\ op' = "calculate_ca_state_tax"
        /\ args' = [w2_state_wages |-> w, interest_income |-> ii,
                    stock_short_term_gains |-> st,
                    stock_long_term_gains |-> lt, net_rental_income |-> nr,
                    ca_itemized_deductions |-> it, state_tax_withheld |-> wh,
                    ca_sdi_withheld |-> sdi]
        /\ ret' = calculate_ca_state_tax(w, ii, st, lt, nr, it, wh, sdi)
        /\ ca_standard_deduction' = ret'.ca_deduction
        /\ UNCHANGED <<current_year, filing_status, tax_brackets,
                       capital_gains_brackets, standard_deduction,
                       niit_threshold, ca_tax_brackets>>

CallCaStateTax ==
    /\ Idle
    /\ \E w \in {0, 150000, 1200000}, ii \in InterestIncomes,
       st \in {-7000, 0, 9000}, lt \in {0, 60000},
       nr \in {-30000, 0, 20000},
       it \in {None, Some(5000), Some(ca_standard_deduction),
               Some(ca_standard_deduction + 1), Some(30000)},
       wh \in {0, 10000, 200000}, sdi \in {0, 1800} :
        /\ op' = "calculate_ca_state_tax"
        /\ args' = [w2_state_wages |-> w, interest_income |-> ii,
                    stock_short_term_gains |-> st,
                    stock_long_term_gains |-> lt, net_rental_income |-> nr,
                    ca_itemized_deductions |-> it, state_tax_withheld |-> wh,
                    ca_sdi_withheld |-> sdi]
        /\ ret' = calculate_ca_state_tax(w, ii, st, lt, nr, it, wh, sdi)
        /\ UNCHANGED calc

NextLiability ==
    \/ CallTotalTaxLiability
    \/ CallCaStateTax
    \/ CallNiit
    \/ Return

SpecLiability == Init /\ [][NextLiability]_vars

(***************************************************************************)
(* Dates (datetime of the standard library)                                *)
(***************************************************************************)
datetime(y, m, d) == [year |-> y, month |-> m, day |-> d]

IsLeap(y) == (y % 4 = 0 /\ y % 100 # 0) \/ y % 400 = 0

DaysBeforeMonth(y, m) ==
    <<0, 31, 59, 90, 120, 151, 181, 212, 243, 273, 304, 334>>[m]
        + (IF m > 2 /\ IsLeap(y) THEN 1 ELSE 0)

\* date.toordinal(): the number of the day, day 1 being 0001-01-01
toordinal(date) ==
    LET y1 == date.year - 1
    IN  y1 * 365 + (y1 \div 4) - (y1 \div 100) + (y1 \div 400)
            + DaysBeforeMonth(date.year, date.month) + date.day

\* (later - earlier).days
days_between(later, earlier) == toordinal(later) - toordinal(earlier)

\* datetime.strptime(text, '%m/%d/%y') of a date written [m, d, yy]: a
\* two-digit year up to 68 is in 2000-2068, from 69 on in 1969-1999.
strptime_mdy(text) ==
    datetime(IF text.yy <= 68 THEN 2000 + text.yy ELSE 1900 + text.yy,
             text.m, text.d)

Abs(n) == IF n < 0 THEN 0 - n ELSE n

(***************************************************************************)
(* 1099-B reconciliation: TaxCalculator.load_1099b_data, get_1099b_summary *)
(* and form_parsers/f1099b_parser.py.                                      *)
(*                                                                         *)
(* The extracted text of a form is modelled by what the regular            *)
(* expressions of the parser find in it: for each pattern, the matched     *)
(* line as its sequence of amount tokens.  An amount token is the digits   *)
(* of the amount (whole dollars) and whether it is written in parentheses. *)
(***************************************************************************)
parse_amount(raw) == IF raw.parens THEN 0 - raw.digits ELSE raw.digits

extract_amounts(tokens) == [k \in 1..Len(tokens) |-> parse_amount(tokens[k])]

tax_type_of(is_long) ==
    IF is_long THEN "Long Term Capital Gains"
    ELSE "Short Term Capital Gains (Ordinary Income)"

make_result(date_acquired, date_sold, proceeds, cost_basis, raw_gain, wash_sale, taxable_gain, is_long) ==
    [stock_type |-> "RSU",
     acquired_date |-> date_acquired,
     sold_date |-> date_sold,
     shares |-> 0,
     acquisition_price |-> 0,
     sold_price |-> 0,
     proceeds |-> proceeds,
     cost_basis |-> cost_basis,
     total_gain |-> taxable_gain,
     raw_gain |-> raw_gain,
     wash_sale_disallowed |-> wash_sale,
     is_long_term |-> is_long,
     tax_type |-> tax_type_of(is_long),
     tax_rate |-> 0,
     tax_amount |-> 0,
     ordinary_income_portion |-> 0,
     capital_gain_portion |-> taxable_gain,
     grant_number |-> "N/A",
     form_8949_box |-> "",
     is_covered |-> TRUE,
     cost_basis_missing |-> FALSE,
     actually_sold |-> TRUE,
     source |-> "1099-B"]

\* The rows of one "Noncovered Securities" section: the lines with two
\* parsable dates and at least two amounts.
RECURSIVE noncovered_section_rows(_, _, _)
noncovered_section_rows(section, k, rows) ==
    IF k > Len(section.lines) THEN rows
    ELSE LET m == section.lines[k]
             amounts == extract_amounts(m.amounts)
             date_acquired == IF section.acquired_first
                              THEN Value(m.date1) ELSE Value(m.date2)
             date_sold == IF section.acquired_first
                          THEN Value(m.date2) ELSE Value(m.date1)
         IN  IF m.date1 = None \/ m.date2 = None \/ Len(amounts) < 2
             THEN noncovered_section_rows(section, k + 1, rows)
             ELSE noncovered_section_rows(section, k + 1,
                      Append(rows,
                             [date_acquired |-> date_acquired,
                              date_sold |-> date_sold,
                              proceeds |-> amounts[1],
                              cost_basis |-> amounts[2],
                              wash_sale |-> IF Len(amounts) >= 5
                                            THEN amounts[4] ELSE 0]))

\* _parse_noncovered_transaction_rows: the rows of the first section of the
\* term, from section j on, that has rows.
RECURSIVE parse_noncovered_transaction_rows_from(_, _)
parse_noncovered_transaction_rows_from(sections, j) ==
    IF j > Len(sections) THEN <<>>
    ELSE LET rows == noncovered_section_rows(sections[j], 1, <<>>)
         IN  IF rows # <<>> THEN rows
             ELSE parse_noncovered_transaction_rows_from(sections, j + 1)

parse_noncovered_transaction_rows(text, is_long) ==
    parse_noncovered_transaction_rows_from(text.noncovered_sections[is_long], 1)

\* The loop of _adjust_noncovered_from_transactions from row k on.
RECURSIVE adjust_totals(_, _, _)
adjust_totals(rows, k, acc) ==
    IF k > Len(rows) THEN acc
    ELSE LET row == rows[k]
             days_held == Abs(days_between(row.date_sold, row.date_acquired))
         IN  adjust_totals(rows, k + 1,
                 [total_proceeds |-> acc.total_proceeds + row.proceeds,
                  total_wash |-> acc.total_wash + row.wash_sale,
                  total_cost |-> acc.total_cost
                      + (IF days_held <= 2 THEN row.proceeds
                         ELSE row.cost_basis)])

adjust_noncovered_from_transactions(text, is_long, tax_year) ==
    LET rows == parse_noncovered_transaction_rows(text, is_long)
        t == adjust_totals(rows, 1, [total_proceeds |-> 0, total_cost |-> 0,
                                     total_wash |-> 0])
    IN  IF rows = <<>> THEN None
        ELSE IF t.total_proceeds <= 0 THEN None
        ELSE Some([cost_basis |-> t.total_cost,
                   raw_gain |-> t.total_proceeds - t.total_cost,
                   wash_sale |-> t.total_wash])

\* (box_letter, is_long_term, is_covered)
boxes ==
    << [box_letter |-> "A", is_long |-> FALSE, is_covered |-> TRUE],
       [box_letter |-> "B", is_long |-> FALSE, is_covered |-> FALSE],
       [box_letter |-> "D", is_long |-> TRUE, is_covered |-> TRUE],
       [box_letter |-> "E", is_long |-> TRUE, is_covered |-> FALSE] >>

\* box_result that keeps the taxable gain of the box line when the basis is
\* re-estimated from the transaction rows.
box_result_stale_taxable(text, box, amounts, tax_year) ==
    LET proceeds == amounts[1]
        adjust == ~box.is_covered /\ amounts[2] = 0 /\ proceeds > 0
        adjusted == IF adjust
                    THEN adjust_noncovered_from_transactions(text, box.is_long,
                                                             tax_year)
                    ELSE None
        cost_basis == IF adjusted # None THEN Value(adjusted).cost_basis
                      ELSE amounts[2]
        wash_sale == IF adjusted # None THEN Value(adjusted).wash_sale
                     ELSE amounts[4]
        raw_gain == IF adjusted # None THEN Value(adjusted).raw_gain
                    ELSE amounts[5]
        taxable_gain == amounts[5] + amounts[4]
    IN  [make_result(datetime(tax_year, 1, 1), datetime(tax_year, 12, 31),
                     proceeds, cost_basis, raw_gain, wash_sale, taxable_gain,
                     box.is_long)
             EXCEPT !.form_8949_box = box.box_letter,
                    !.is_covered = box.is_covered,
                    !.cost_basis_missing = (~box.is_covered /\ cost_basis = 0)]

\* The result _parse_box_subtotals builds for a box whose line has the
\* amounts PROCEEDS, COST BASIS, MKT DISCOUNT, WASH SALE, GAIN/LOSS.
box_result(text, box, amounts, tax_year) ==
    LET proceeds == amounts[1]
        adjust == ~box.is_covered /\ amounts[2] = 0 /\ proceeds > 0
        adjusted == IF adjust
                    THEN adjust_noncovered_from_transactions(text, box.is_long,
                                                             tax_year)
                    ELSE None
        cost_basis == IF adjusted # None THEN Value(adjusted).cost_basis
                      ELSE amounts[2]
        wash_sale == IF adjusted # None THEN Value(adjusted).wash_sale
                     ELSE amounts[4]
        raw_gain == IF adjusted # None THEN Value(adjusted).raw_gain
                    ELSE amounts[5]
        taxable_gain == raw_gain + wash_sale
    IN  [make_result(datetime(tax_year, 1, 1), datetime(tax_year, 12, 31),
                     proceeds, cost_basis, raw_gain, wash_sale, taxable_gain,
                     box.is_long)
             EXCEPT !.form_8949_box = box.box_letter,
                    !.is_covered = box.is_covered,
                    !.cost_basis_missing = (~box.is_covered /\ cost_basis = 0)]

\* The loop of _parse_box_subtotals from box b on.
RECURSIVE parse_box_subtotals_from(_, _, _, _)
parse_box_subtotals_from(text, tax_year, b, acc) ==
    IF b > Len(boxes) THEN acc
    ELSE LET box == boxes[b]
             match == text.boxes[box.box_letter]
             amounts == extract_amounts(Value(match))
         IN  IF match = None
             THEN parse_box_subtotals_from(text, tax_year, b + 1, acc)
             ELSE IF Len(amounts) < 5
             THEN parse_box_subtotals_from(text, tax_year, b + 1, acc)
             ELSE IF amounts[1] = 0 /\ amounts[2] = 0
             THEN parse_box_subtotals_from(text, tax_year, b + 1, acc)
             ELSE parse_box_subtotals_from(text, tax_year, b + 1,
                      [found_any |-> TRUE,
                       results |-> Append(acc.results,
                           box_result(text, box, amounts, tax_year))])

parse_box_subtotals(text, tax_year) ==
    LET r == parse_box_subtotals_from(text, tax_year, 1,
                 [found_any |-> FALSE, results |-> <<>>])
    IN  IF r.found_any THEN r.results ELSE <<>>

terms == << [term |-> "Short", is_long |-> FALSE],
            [term |-> "Long", is_long |-> TRUE] >>

\* The loop of _parse_summary_totals from term t on.
RECURSIVE parse_summary_totals_from(_, _, _, _)
parse_summary_totals_from(text, tax_year, t, results) ==
    IF t > Len(terms) THEN results
    ELSE LET match == text.totals[terms[t].term]
             amounts == extract_amounts(Value(match))
             proceeds == amounts[1]
             cost_basis == amounts[2]
             wash_sale == amounts[4]
             raw_gain == amounts[5]
             taxable_gain == raw_gain + wash_sale
         IN  IF match = None
             THEN parse_summary_totals_from(text, tax_year, t + 1, results)
             ELSE IF Len(amounts) < 5
             THEN parse_summary_totals_from(text, tax_year, t + 1, results)
             ELSE IF proceeds = 0 /\ cost_basis = 0
             THEN parse_summary_totals_from(text, tax_year, t + 1, results)
             ELSE parse_summary_totals_from(text, tax_year, t + 1,
                      Append(results,
                          make_result(datetime(tax_year, 1, 1),
                              datetime(tax_year, 12, 31), proceeds, cost_basis,
                              raw_gain, wash_sale, taxable_gain,
                              terms[t].is_long)))

parse_summary_totals(text, tax_year) ==
    parse_summary_totals_from(text, tax_year, 1, <<>>)

\* The result _parse_transaction_rows builds for one row.
transaction_row_result(acquired_first, m) ==
    LET date_acquired == IF acquired_first THEN Value(m.date1)
                         ELSE Value(m.date2)
        date_sold == IF acquired_first THEN Value(m.date2) ELSE Value(m.date1)
        amounts == extract_amounts(m.amounts)
        n == Len(amounts)
        proceeds == amounts[1]
        cost_basis == amounts[2]
        wash_sale == IF acquired_first /\ n >= 5 THEN amounts[4]
                     ELSE IF n >= 4 THEN amounts[3]
                     ELSE 0
        raw_gain == IF acquired_first /\ n >= 5 THEN amounts[5]
                    ELSE IF n >= 4 THEN amounts[4]
                    ELSE IF n >= 3 THEN amounts[3]
                    ELSE proceeds - cost_basis
        is_long == days_between(date_sold, date_acquired) > 365
        taxable_gain == raw_gain + wash_sale
    IN  make_result(date_acquired, date_sold, proceeds, cost_basis, raw_gain,
                    wash_sale, taxable_gain, is_long)

\* The loop of _parse_transaction_rows from row k on.
RECURSIVE parse_transaction_rows_from(_, _, _)
parse_transaction_rows_from(text, k, results) ==
    IF k > Len(text.rows) THEN results
    ELSE LET m == text.rows[k]
         IN  IF m.date1 = None \/ m.date2 = None \/ Len(m.amounts) < 2
             THEN parse_transaction_rows_from(text, k + 1, results)
             ELSE parse_transaction_rows_from(text, k + 1,
                      Append(results,
                          transaction_row_result(text.rows_acquired_first, m)))

parse_transaction_rows(text, tax_year) ==
    parse_transaction_rows_from(text, 1, <<>>)

\* The loop of _parse_summary_sections from term t on.
RECURSIVE parse_summary_sections_from(_, _, _, _)
parse_summary_sections_from(text, tax_year, t, results) ==
    IF t > Len(terms) THEN results
    ELSE LET section == text.sections[terms[t].term]
             sec == Value(section)
             proceeds == parse_amount(Value(sec.proceeds_match))
             cost_basis == parse_amount(Value(sec.basis_match))
             raw_gain == IF sec.gain_match # None
                         THEN parse_amount(Value(sec.gain_match))
                         ELSE proceeds - cost_basis
             wash_sale == IF sec.wash_match # None
                          THEN parse_amount(Value(sec.wash_match)) ELSE 0
             taxable_gain == raw_gain + wash_sale
         IN  IF section = None
             THEN parse_summary_sections_from(text, tax_year, t + 1, results)
             ELSE IF sec.proceeds_match # None /\ sec.basis_match # None
             THEN parse_summary_sections_from(text, tax_year, t + 1,
                      Append(results,
                          make_result(datetime(tax_year, 1, 1),
                              datetime(tax_year, 12, 31), proceeds, cost_basis,
                              raw_gain, wash_sale, taxable_gain,
                              terms[t].is_long)))
             ELSE parse_summary_sections_from(text, tax_year, t + 1, results)

parse_summary_sections(text, tax_year) ==
    parse_summary_sections_from(text, tax_year, 1, <<>>)

\* The loop of _parse_transaction_blocks from block k on.
RECURSIVE parse_transaction_blocks_from(_, _, _)
parse_transaction_blocks_from(text, k, results) ==
    IF k > Len(text.blocks) THEN results
    ELSE LET m == text.blocks[k]
             date_acquired == Value(m.date_acquired)
             date_sold == Value(m.date_sold)
             proceeds == parse_amount(m.proceeds)
             cost_basis == parse_amount(m.cost_basis)
             raw_gain == proceeds - cost_basis
             is_long == days_between(date_sold, date_acquired) > 365
         IN  IF m.date_sold = None \/ m.date_acquired = None
             THEN parse_transaction_blocks_from(text, k + 1, results)
             ELSE parse_transaction_blocks_from(text, k + 1,
                      Append(results,
                          make_result(date_acquired, date_sold, proceeds,
                              cost_basis, raw_gain, 0, raw_gain, is_long)))

parse_transaction_blocks(text, tax_year) ==
    parse_transaction_blocks_from(text, 1, <<>>)

parse_1099b(text, tax_year) ==
    IF parse_box_subtotals(text, tax_year) # <<>>
    THEN parse_box_subtotals(text, tax_year)
    ELSE IF parse_summary_totals(text, tax_year) # <<>>
    THEN parse_summary_totals(text, tax_year)
    ELSE IF parse_transaction_rows(text, tax_year) # <<>>
    THEN parse_transaction_rows(text, tax_year)
    ELSE IF parse_summary_sections(text, tax_year) # <<>>
    THEN parse_summary_sections(text, tax_year)
    ELSE parse_transaction_blocks(text, tax_year)

\* str(row['Term']).strip().lower().startswith('long'), over the spellings
\* of the Term column the model draws
term_is_long(term) == term \in {"Long Term", " long-term", "LONG"}

\* The result load_1099b_data builds for one row of the CSV file.  A quotient
\* a / b is kept as the fraction <<a, b>>.
load_1099b_row(row) ==
    LET is_long == term_is_long(row.Term)
        wash_sale == IF row.Wash_Sale_Disallowed = None THEN 0
                     ELSE Value(row.Wash_Sale_Disallowed)
        raw_gain == row.Gain_Loss
        taxable_gain == raw_gain + wash_sale
        shares == row.Shares
    IN  [stock_type |-> "RSU",
         acquired_date |-> strptime_mdy(row.Date_Acquired),
         sold_date |-> strptime_mdy(row.Date_Sold),
         shares |-> shares,
         acquisition_price |->
             IF shares > 0 THEN <<row.Cost_Basis, shares>> ELSE <<0, 1>>,
         sold_price |->
             IF shares > 0 THEN <<row.Proceeds, shares>> ELSE <<0, 1>>,
         proceeds |-> row.Proceeds,
         cost_basis |-> row.Cost_Basis,
         total_gain |-> taxable_gain,
         raw_gain |-> raw_gain,
         wash_sale_disallowed |-> wash_sale,
         is_long_term |-> is_long,
         tax_type |-> tax_type_of(is_long),
         tax_rate |-> 0,
         tax_amount |-> 0,
         ordinary_income_portion |-> 0,
         capital_gain_portion |-> taxable_gain,
         grant_number |-> row.Grant_Number,
         form_8949_box |-> row.Form_8949_Box,
         actually_sold |-> TRUE,
         source |-> "1099-B"]

load_1099b_data(csv_file) == [k \in 1..Len(csv_file) |-> load_1099b_row(csv_file[k])]

\* One step of the loop of get_1099b_summary: result r added to the totals
\* of its term.
summary_add(total, r) ==
    [proceeds |-> total.proceeds + Get(r, "proceeds", 0),
     cost_basis |-> total.cost_basis + Get(r, "cost_basis", 0),
     wash_sale |-> total.wash_sale + Get(r, "wash_sale_disallowed", 0),
     raw_gain |-> total.raw_gain + Get(r, "raw_gain", Get(r, "total_gain", 0)),
     taxable_gain |-> total.taxable_gain + Get(r, "total_gain", 0),
     shares |-> total.shares + Get(r, "shares", 0),
     count |-> total.count + 1]

RECURSIVE summary_from(_, _, _)
summary_from(stock_results, k, summary) ==
    IF k > Len(stock_results) THEN summary
    ELSE LET r == stock_results[k]
             key == IF Get(r, "is_long_term", FALSE) THEN "long_term"
                    ELSE "short_term"
         IN  summary_from(stock_results, k + 1,
                 [summary EXCEPT ![key] = summary_add(summary[key], r)])

get_1099b_summary(stock_results) ==
    LET zero == [proceeds |-> 0, cost_basis |-> 0, wash_sale |-> 0,
                 raw_gain |-> 0, taxable_gain |-> 0, shares |-> 0,
                 count |-> 0]
        summary == summary_from(stock_results, 1,
                       [short_term |-> zero, long_term |-> zero])
    IN  [short_term |-> summary.short_term,
         long_term |-> summary.long_term,
         total_proceeds |->
             summary.short_term.proceeds + summary.long_term.proceeds,
         total_cost_basis |->
             summary.short_term.cost_basis + summary.long_term.cost_basis,
         total_wash_sale |->
             summary.short_term.wash_sale + summary.long_term.wash_sale,
         total_taxable_gain |->
             summary.short_term.taxable_gain + summary.long_term.taxable_gain,
         total_shares |-> summary.short_term.shares + summary.long_term.shares,
         total_count |-> summary.short_term.count + summary.long_term.count]

(***************************************************************************)
(* Brokerage inputs.  Amounts are whole dollars.                           *)
(***************************************************************************)
MaxRows == 2

\* The amount n as the form prints it: a negative amount in parentheses
Tok(n) == [digits |-> Abs(n), parens |-> n < 0]

Line(ns) == [k \in 1..Len(ns) |-> Tok(ns[k])]

\* Sequences of at most n elements of S (n = 0..3)
SeqsUpTo(S, n) == {<<>>} \cup (IF n >= 1 THEN {<<a>> : a \in S} ELSE {}) \cup (IF n >= 2 THEN {<<a, b>> : a, b \in S} ELSE {}) \cup (IF n >= 3 THEN {<<a, b, c>> : a, b, c \in S} ELSE {})

\* PROCEEDS, COST BASIS, MKT DISCOUNT, WASH SALE, GAIN/LOSS of a covered box
\* or of a "Total ... Term" line; a line with fewer than five amounts; a
\* line of zeros
CoveredLines ==
    { None,
      Some(Line(<<1000, 800, 0, 50, 200>>)),
      Some(Line(<<1000, 1300, 0, 100, -300>>)),
      Some(Line(<<1000, 800, 0, 200>>)),
      Some(Line(<<0, 0, 0, 0, 0>>)) }

\* The line of a noncovered box: the basis not reported, or reported
NoncoveredLines ==
    { None,
      Some(Line(<<5000, 0, 0, 0, 5000>>)),
      Some(Line(<<5000, 0, 0, 40, 5000>>)),
      Some(Line(<<5000, 4000, 0, 0, 1000>>)) }

\* The rows under a "Noncovered Securities" header: sold on the day of
\* vesting, sold two days later with a wash sale, held longer, with a date
\* that does not parse, and with a single amount
NoncoveredRowLines ==
    { [date1 |-> Some(datetime(2025, 3, 5)), date2 |-> Some(datetime(2025, 3, 5)), amounts |-> Line(<<3000, 0>>)],
      [date1 |-> Some(datetime(2025, 6, 5)), date2 |-> Some(datetime(2025, 6, 7)), amounts |-> Line(<<2000, 0, 0, 30, 2000>>)],
      [date1 |-> Some(datetime(2024, 2, 28)), date2 |-> Some(datetime(2025, 3, 1)), amounts |-> Line(<<2000, 500, 0, 0, 1500>>)],
      [date1 |-> None, date2 |-> Some(datetime(2025, 3, 5)), amounts |-> Line(<<3000, 0>>)],
      [date1 |-> Some(datetime(2025, 3, 5)), date2 |-> Some(datetime(2025, 3, 5)), amounts |-> Line(<<3000>>)] }

\* The sections of one term with a "Noncovered Securities" header: none, the
\* detail page alone, and the summary page (no rows) before the detail page
NoncoveredSections ==
    {<<>>}
        \cup { <<[acquired_first |-> af, lines |-> ls]>> : af \in BOOLEAN, ls \in SeqsUpTo(NoncoveredRowLines, MaxRows) }
        \cup { <<[acquired_first |-> TRUE, lines |-> <<>>], [acquired_first |-> TRUE, lines |-> ls]>> : ls \in SeqsUpTo(NoncoveredRowLines, 1) }

\* The rows of the detail pages in both column orders: with 2, 3, 4, 5 and
\* 1 amounts, held for less and for more than a year
TransactionRowLines ==
    { [date1 |-> Some(datetime(2025, 1, 10)), date2 |-> Some(datetime(2025, 6, 10)), amounts |-> Line(<<900, 1000>>)],
      [date1 |-> Some(datetime(2023, 1, 10)), date2 |-> Some(datetime(2025, 6, 10)), amounts |-> Line(<<900, 1000, -100>>)],
      [date1 |-> Some(datetime(2025, 6, 10)), date2 |-> Some(datetime(2024, 6, 10)), amounts |-> Line(<<900, 1000, 60, -100>>)],
      [date1 |-> Some(datetime(2024, 6, 9)), date2 |-> Some(datetime(2025, 6, 10)), amounts |-> Line(<<900, 1000, 0, 60, -100, 10>>)],
      [date1 |-> Some(datetime(2025, 1, 10)), date2 |-> None, amounts |-> Line(<<900, 1000>>)],
      [date1 |-> Some(datetime(2025, 1, 10)), date2 |-> Some(datetime(2025, 6, 10)), amounts |-> Line(<<900>>)] }

\* What the four patterns of _parse_summary_sections find in the section of
\* a term.  The patterns of proceeds, basis and wash sale take no
\* parentheses.
SummarySections ==
    { None,
      Some([proceeds_match |-> Some(Tok(700)), basis_match |-> Some(Tok(900)), gain_match |-> Some(Tok(-200)), wash_match |-> Some(Tok(80))]),
      Some([proceeds_match |-> Some(Tok(700)), basis_match |-> Some(Tok(900)), gain_match |-> None, wash_match |-> None]),
      Some([proceeds_match |-> Some(Tok(700)), basis_match |-> Some(Tok(400)), gain_match |-> Some(Tok(300)), wash_match |-> None]),
      Some([proceeds_match |-> Some(Tok(700)), basis_match |-> None, gain_match |-> Some(Tok(300)), wash_match |-> Some(Tok(80))]) }

TransactionBlocks ==
    { [date_acquired |-> Some(datetime(2024, 1, 15)), date_sold |-> Some(datetime(2025, 1, 15)), proceeds |-> Tok(600), cost_basis |-> Tok(450)],
      [date_acquired |-> Some(datetime(2024, 1, 15)), date_sold |-> Some(datetime(2025, 1, 16)), proceeds |-> Tok(600), cost_basis |-> Tok(750)],
      [date_acquired |-> None, date_sold |-> Some(datetime(2025, 1, 15)), proceeds |-> Tok(600), cost_basis |-> Tok(450)] }

\* A text in which no pattern of the parser finds anything
EmptyText ==
    [boxes |-> [b \in {"A", "B", "D", "E"} |-> None],
     noncovered_sections |-> [l \in BOOLEAN |-> <<>>],
     totals |-> [t \in {"Short", "Long"} |-> None],
     rows_acquired_first |-> FALSE,
     rows |-> <<>>,
     sections |-> [t \in {"Short", "Long"} |-> None],
     blocks |-> <<>>]

\* Totals Summary pages with box lines, and the noncovered detail pages
BoxTexts ==
    { [EmptyText EXCEPT !.boxes = [b \in {"A", "B", "D", "E"} |-> IF b = "A" THEN a ELSE IF b = "B" THEN nb ELSE None],
                        !.noncovered_sections = [l \in BOOLEAN |-> IF l THEN <<>> ELSE ns]] :
        a \in CoveredLines, nb \in NoncoveredLines, ns \in NoncoveredSections }
      \cup
    { [EmptyText EXCEPT !.boxes = [b \in {"A", "B", "D", "E"} |-> IF b = "A" THEN Some(Line(<<1000, 800, 0, 50, 200>>)) ELSE IF b = "D" THEN d ELSE IF b = "E" THEN ne ELSE None],
                        !.noncovered_sections = [l \in BOOLEAN |-> IF l THEN ns ELSE <<>>]] :
        d \in {None, Some(Line(<<1000, 1300, 0, 100, -300>>))}, ne \in NoncoveredLines, ns \in NoncoveredSections }

TotalsTexts ==
    { [EmptyText EXCEPT !.boxes = [b \in {"A", "B", "D", "E"} |-> IF b = "A" THEN a ELSE None],
                        !.totals = [t \in {"Short", "Long"} |-> IF t = "Short" THEN st ELSE lt]] :
        a \in {None, Some(Line(<<1000, 800, 0, 200>>)), Some(Line(<<1000, 800, 0, 50, 200>>))}, st \in CoveredLines, lt \in CoveredLines }

RowTexts ==
    { [EmptyText EXCEPT !.totals = [t \in {"Short", "Long"} |-> st],
                        !.rows_acquired_first = af,
                        !.rows = rs] :
        st \in {None, Some(Line(<<0, 0, 0, 0, 0>>))}, af \in BOOLEAN, rs \in SeqsUpTo(TransactionRowLines, MaxRows) }

SectionTexts ==
    { [EmptyText EXCEPT !.sections = [t \in {"Short", "Long"} |-> IF t = "Short" THEN st ELSE lt],
                        !.blocks = bs] :
        st \in SummarySections, lt \in SummarySections, bs \in SeqsUpTo(TransactionBlocks, 1) }

BlockTexts ==
    { [EmptyText EXCEPT !.rows = rs, !.blocks = bs] :
        rs \in SeqsUpTo({r \in TransactionRowLines : r.date2 = None \/ Len(r.amounts) < 2}, 1), bs \in SeqsUpTo(TransactionBlocks, MaxRows) }

Texts == BoxTexts \cup TotalsTexts \cup RowTexts \cup SectionTexts \cup BlockTexts

\* Rows of the 1099-B CSV file; Wash_Sale_Disallowed is None when the file
\* has no such column, and a date is the month, day and two-digit year
CsvRows ==
    { [Term |-> "Short Term", Date_Sold |-> [m |-> 3, d |-> 5, yy |-> 25], Date_Acquired |-> [m |-> 3, d |-> 5, yy |-> 25], Proceeds |-> 3000, Cost_Basis |-> 3100, Wash_Sale_Disallowed |-> Some(100), Gain_Loss |-> -100, Grant_Number |-> "632058", Shares |-> 10, Form_8949_Box |-> "A"],
      [Term |-> "Long Term", Date_Sold |-> [m |-> 6, d |-> 10, yy |-> 25], Date_Acquired |-> [m |-> 3, d |-> 5, yy |-> 23], Proceeds |-> 9700, Cost_Basis |-> 4850, Wash_Sale_Disallowed |-> Some(0), Gain_Loss |-> 4850, Grant_Number |-> "632058", Shares |-> 25, Form_8949_Box |-> "D"],
      [Term |-> " long-term", Date_Sold |-> [m |-> 6, d |-> 10, yy |-> 25], Date_Acquired |-> [m |-> 12, d |-> 31, yy |-> 99], Proceeds |-> 500, Cost_Basis |-> 800, Wash_Sale_Disallowed |-> None, Gain_Loss |-> -300, Grant_Number |-> "N/A", Shares |-> 0, Form_8949_Box |-> ""],
      [Term |-> "Short Term", Date_Sold |-> [m |-> 2, d |-> 29, yy |-> 24], Date_Acquired |-> [m |-> 1, d |-> 2, yy |-> 24], Proceeds |-> 1200, Cost_Basis |-> 1500, Wash_Sale_Disallowed |-> Some(120), Gain_Loss |-> -300, Grant_Number |-> "N/A", Shares |-> 4, Form_8949_Box |-> "B"],
      [Term |-> "LONG", Date_Sold |-> [m |-> 6, d |-> 10, yy |-> 25], Date_Acquired |-> [m |-> 3, d |-> 5, yy |-> 23], Proceeds |-> 2000, Cost_Basis |-> 1000, Wash_Sale_Disallowed |-> None, Gain_Loss |-> 1000, Grant_Number |-> "700001", Shares |-> 5, Form_8949_Box |-> "E"] }

CsvFiles == SeqsUpTo(CsvRows, MaxRows)

CallLoad1099bData ==
    /\ Idle
    /\ \E csv_file \in CsvFiles :
        /\ op' = "load_1099b_data"
        /\ args' = [csv_file |-> csv_file]
        /\ ret' = load_1099b_data(csv_file)
        /\ UNCHANGED calc

CallParse1099b ==
    /\ Idle
    /\ \E text \in Texts :
        /\ op' = "parse_1099b"
        /\ args' = [text |-> text, tax_year |-> current_year]
        /\ ret' = parse_1099b(text, current_year)
        /\ UNCHANGED calc

\* The records just loaded or parsed are handed to get_1099b_summary
CallGet1099bSummary ==
    /\ op \in {"load_1099b_data", "parse_1099b"}
    /\ op' = "get_1099b_summary"
    /\ args' = [stock_results |-> ret]
    /\ ret' = get_1099b_summary(ret)
    /\ UNCHANGED calc

NextBroker ==
    \/ CallLoad1099bData
    \/ CallParse1099b
    \/ CallGet1099bSummary
    \/ Return

SpecBroker == Init /\ [][NextBroker]_vars

(***************************************************************************)
(* Equity compensation: the RSU / ESPP classifier of TaxCalculator.        *)
(* Prices are whole dollars per share; values, gains and the ESPP purchase *)
(* price (85% of a price) are in cents, so that the products are exact.    *)
(***************************************************************************)
Cents(dollars) == dollars * 100

\* is_long_term with "at least 365 days"
is_long_term_at_least(acquired_date, sold_date) ==
    days_between(sold_date, acquired_date) >= 365

is_long_term(acquired_date, sold_date) ==
    days_between(sold_date, acquired_date) > 365

\* get_tesla_offer_date that takes 1 February of the purchase year for
\* every purchase
get_tesla_offer_date_same_year(purchase_date) ==
    datetime(purchase_date.year, 2, 1)

get_tesla_offer_date(purchase_date) ==
    IF purchase_date.month <= 2 THEN datetime(purchase_date.year - 1, 8, 1)
    ELSE IF purchase_date.month <= 8 THEN datetime(purchase_date.year, 2, 1)
    ELSE datetime(purchase_date.year, 8, 1)

\* is_qualifying_espp_disposition with strict comparisons
is_qualifying_espp_disposition_strict(offer_date, purchase_date, sold_date) ==
    /\ days_between(sold_date, offer_date) > 730
    /\ days_between(sold_date, purchase_date) > 365

is_qualifying_espp_disposition(offer_date, purchase_date, sold_date) ==
    LET two_years_from_offer == days_between(sold_date, offer_date) >= 730
        one_year_from_purchase == days_between(sold_date, purchase_date) >= 365
    IN  two_years_from_offer /\ one_year_from_purchase

\* Steps 1 and 5 of verify_espp_calculation: the offer date inferred from
\* the purchase date, the two day counts and the two classifications
verify_espp_classification(purchase_date, sold_date) ==
    LET offer_date == get_tesla_offer_date(purchase_date)
    IN  [offer_date |-> offer_date,
         is_qualifying |-> is_qualifying_espp_disposition(offer_date, purchase_date, sold_date),
         days_from_offer |-> days_between(sold_date, offer_date),
         days_from_purchase |-> days_between(sold_date, purchase_date),
         is_long_term |-> is_long_term(purchase_date, sold_date)]

\* get_stock_price: the closing price the price history gives for the date,
\* 0 when the history has nothing around the date or the lookup fails
get_stock_price(history, date) ==
    IF date \in DOMAIN history THEN history[date] ELSE 0

calculate_rsu_taxes(history, row, sold_date, sold_price, ordinary_income) ==
    LET acquired_date == row.Date_Acquired
        shares == row.Sellable_Qty
        acquisition_price == get_stock_price(history, acquired_date)
        acquisition_value == Cents(acquisition_price) * shares
        proceeds == shares * Cents(sold_price)
        total_gain == proceeds - acquisition_value
        is_long_term_holding == is_long_term(acquired_date, sold_date)
        tax_rate == IF is_long_term_holding
                    THEN calculate_capital_gains_rate(ordinary_income)
                    ELSE calculate_marginal_tax_rate(ordinary_income)
        tax_type == IF is_long_term_holding THEN "Long Term Capital Gains"
                    ELSE "Short Term Capital Gains (Ordinary Income)"
    IN  IF acquisition_price = 0 THEN None
        ELSE Some([stock_type |-> "RSU",
                   acquired_date |-> acquired_date,
                   shares |-> shares,
                   acquisition_price |-> Cents(acquisition_price),
                   sold_price |-> Cents(sold_price),
                   proceeds |-> proceeds,
                   total_gain |-> total_gain,
                   is_long_term |-> is_long_term_holding,
                   tax_type |-> tax_type,
                   tax_rate |-> tax_rate,
                   tax_amount |-> Max(0, total_gain * tax_rate),
                   ordinary_income_portion |-> 0,
                   capital_gain_portion |-> total_gain])

calculate_espp_taxes(history, row, sold_date, sold_price, ordinary_income) ==
    LET purchase_date == row.Date_Acquired
        shares == row.Sellable_Qty
        offer_date == get_tesla_offer_date(purchase_date)
        offer_price == get_stock_price(history, offer_date)
        purchase_date_price == get_stock_price(history, purchase_date)
        lower_price == Min(offer_price, purchase_date_price)
        espp_purchase_price == lower_price * 85
        purchase_value == espp_purchase_price * shares
        proceeds == shares * Cents(sold_price)
        total_gain == proceeds - purchase_value
        is_qualifying == is_qualifying_espp_disposition(offer_date, purchase_date, sold_date)
        discount_amount == IF is_qualifying
                           THEN (Cents(lower_price) - espp_purchase_price) * shares
                           ELSE (Cents(purchase_date_price) - espp_purchase_price) * shares
        ordinary_income_portion == IF is_qualifying
                                   THEN Min(discount_amount, total_gain)
                                   ELSE discount_amount
        capital_gain_portion == Max(0, total_gain - ordinary_income_portion)
        ordinary_tax == ordinary_income_portion * calculate_marginal_tax_rate(ordinary_income)
        is_long_term_holding == is_long_term(purchase_date, sold_date)
        capital_gains_tax == IF is_qualifying \/ is_long_term_holding
                             THEN capital_gain_portion * calculate_capital_gains_rate(ordinary_income)
                             ELSE capital_gain_portion * calculate_marginal_tax_rate(ordinary_income)
        tax_type == IF is_qualifying THEN "Qualifying ESPP"
                    ELSE IF is_long_term_holding
                    THEN "Disqualifying ESPP (LT Capital Gains)"
                    ELSE "Disqualifying ESPP (ST Capital Gains)"
    IN  IF offer_price = 0 \/ purchase_date_price = 0 THEN None
        ELSE Some([stock_type |-> "ESPP",
                   acquired_date |-> purchase_date,
                   offer_date |-> offer_date,
                   offer_price |-> Cents(offer_price),
                   purchase_date_price |-> Cents(purchase_date_price),
                   shares |-> shares,
                   acquisition_price |-> espp_purchase_price,
                   sold_price |-> Cents(sold_price),
                   proceeds |-> proceeds,
                   total_gain |-> total_gain,
                   is_qualifying |-> is_qualifying,
                   is_long_term |-> is_qualifying \/ is_long_term(purchase_date, sold_date),
                   tax_type |-> tax_type,
                   tax_amount |-> ordinary_tax + capital_gains_tax,
                   ordinary_income_portion |-> ordinary_income_portion,
                   capital_gain_portion |-> capital_gain_portion])

\* The loop of calculate_all_taxes from row k on.  A row is a row of the
\* frame load_stock_data returns: Date_Sold is None and Sale_Price 0 when
\* the file gives none.
RECURSIVE all_taxes_from(_, _, _, _, _, _, _, _)
all_taxes_from(history, rows, ordinary_income, sold_date, sold_only, default_sold_price, k, results) ==
    IF k > Len(rows) THEN results
    ELSE LET row == rows[k]
             row_has_sale == row.Date_Sold # None
             row_sold_date == IF row_has_sale THEN Value(row.Date_Sold)
                              ELSE sold_date
             row_sold_price == IF row_has_sale
                               THEN (IF row.Sale_Price = 0
                                     THEN get_stock_price(history, row_sold_date)
                                     ELSE row.Sale_Price)
                               ELSE Value(default_sold_price)
             result == IF row.Stock_Type = "RSU"
                       THEN calculate_rsu_taxes(history, row, row_sold_date, row_sold_price, ordinary_income)
                       ELSE calculate_espp_taxes(history, row, row_sold_date, row_sold_price, ordinary_income)
             next(rs) == all_taxes_from(history, rows, ordinary_income, sold_date, sold_only, default_sold_price, k + 1, rs)
         IN  IF sold_only /\ ~row_has_sale THEN next(results)
             ELSE IF row.Stock_Type \notin {"RSU", "ESPP"} THEN next(results)
             ELSE IF result = None THEN next(results)
             ELSE next(Append(results,
                       [f \in DOMAIN Value(result) \cup {"grant_number", "original_tax_status", "actually_sold"} |->
                           IF f = "grant_number" THEN row.Grant_Number
                           ELSE IF f = "original_tax_status" THEN row.Tax_Status
                           ELSE IF f = "actually_sold" THEN row_has_sale
                           ELSE Value(result)[f]]))

\* now is the date datetime.now() gives
calculate_all_taxes(history, now, rows, ordinary_income, sold_date_arg, sold_only) ==
    LET sold_date == IF sold_date_arg = None THEN now ELSE Value(sold_date_arg)
        default_sold_price ==
            IF sold_only THEN None
            ELSE IF get_stock_price(history, sold_date) = 0
            THEN Some(get_stock_price(history, now))
            ELSE Some(get_stock_price(history, sold_date))
    IN  all_taxes_from(history, rows, ordinary_income, sold_date, sold_only, default_sold_price, 1, <<>>)

(***************************************************************************)
(* Equity inputs                                                           *)
(***************************************************************************)
CalendarYears == 2022..2026

DaysInMonth(y, m) ==
    IF m = 2 THEN (IF IsLeap(y) THEN 29 ELSE 28)
    ELSE IF m \in {4, 6, 9, 11} THEN 30 ELSE 31

Calendar == UNION { { datetime(y, m, d) : d \in 1..DaysInMonth(y, m) } : y \in CalendarYears, m \in 1..12 }

\* Purchase dates in each period of the schedule, at the ends of the months
\* where the offer date changes
PurchaseDates ==
    { datetime(2023, 1, 31), datetime(2023, 3, 1), datetime(2023, 8, 31),
      datetime(2023, 9, 1), datetime(2023, 12, 29), datetime(2024, 2, 29) }

\* Sale dates on, one day before and one day after the days that decide the
\* classification of a purchase on p with the offer on o
SaleDatesNear(o, p) ==
    { s \in Calendar : \/ days_between(s, o) \in 729..731
                       \/ days_between(s, p) \in {1, 364, 365, 366} }
        \cup {datetime(2025, 10, 23)}

\* Offer dates given to is_qualifying_espp_disposition: the inferred one,
\* and the days 365 and 366 days before the purchase
OfferDatesFor(p) ==
    {get_tesla_offer_date(p)}
        \cup { o \in Calendar : days_between(p, o) \in {365, 366} }

CallVerifyEsppClassification ==
    /\ Idle
    /\ \E purchase_date \in PurchaseDates :
        \E sold_date \in SaleDatesNear(get_tesla_offer_date(purchase_date), purchase_date) :
            /\ op' = "verify_espp_classification"
            /\ args' = [purchase_date |-> purchase_date, sold_date |-> sold_date]
            /\ ret' = verify_espp_classification(purchase_date, sold_date)
            /\ UNCHANGED calc

CallIsQualifyingEsppDisposition ==
    /\ Idle
    /\ \E purchase_date \in PurchaseDates :
        \E offer_date \in OfferDatesFor(purchase_date) :
            \E sold_date \in SaleDatesNear(offer_date, purchase_date) :
                /\ op' = "is_qualifying_espp_disposition"
                /\ args' = [offer_date |-> offer_date, purchase_date |-> purchase_date, sold_date |-> sold_date]
                /\ ret' = is_qualifying_espp_disposition(offer_date, purchase_date, sold_date)
                /\ UNCHANGED calc

MaxLots == 2

\* Dates of vesting or purchase, and dates of sale 365 and 366 days after
\* them, before them, and in a later year
AcquiredDates == {datetime(2023, 1, 31), datetime(2024, 2, 29)}

SoldDates ==
    { datetime(2024, 1, 31), datetime(2024, 2, 1), datetime(2025, 2, 28),
      datetime(2025, 3, 1), datetime(2025, 10, 23) }

\* Closing prices, 0 standing for a lookup that finds nothing
SharePrices == {0, 100, 200}

SalePrices == {50, 150, 300}

ShareCounts == {1, 10}

EquityIncomes == {40000, 300000}

\* The price history around the offer date and the purchase date of p
HistoriesFor(p) ==
    { [d \in {get_tesla_offer_date(p), p} |-> IF d = p THEN pp ELSE po] : po \in SharePrices, pp \in SharePrices }

LotRow(type, acquired, sold, price, qty, grant) ==
    [Stock_Type |-> type, Date_Acquired |-> acquired, Date_Sold |-> sold, Sale_Price |-> price, Sellable_Qty |-> qty, Grant_Number |-> grant, Tax_Status |-> "N/A"]

CallRsuTaxes ==
    /\ Idle
    /\ \E acquired_date \in AcquiredDates, sold_date \in SoldDates, acquisition_price \in SharePrices, sold_price \in SalePrices, shares \in ShareCounts, ordinary_income \in EquityIncomes :
        LET row == LotRow("RSU", acquired_date, None, 0, shares, "g1")
            history == [d \in {acquired_date} |-> acquisition_price]
        IN  /\ op' = "calculate_rsu_taxes"
            /\ args' = [history |-> history, row |-> row, sold_date |-> sold_date, sold_price |-> sold_price, ordinary_income |-> ordinary_income]
            /\ ret' = calculate_rsu_taxes(history, row, sold_date, sold_price, ordinary_income)
            /\ UNCHANGED calc

CallEsppTaxes ==
    /\ Idle
    /\ \E purchase_date \in AcquiredDates, sold_date \in SoldDates, sold_price \in SalePrices, shares \in ShareCounts, ordinary_income \in EquityIncomes :
        \E history \in HistoriesFor(purchase_date) :
            LET row == LotRow("ESPP", purchase_date, None, 0, shares, "g1")
            IN  /\ op' = "calculate_espp_taxes"
                /\ args' = [history |-> history, row |-> row, sold_date |-> sold_date, sold_price |-> sold_price, ordinary_income |-> ordinary_income]
                /\ ret' = calculate_espp_taxes(history, row, sold_date, sold_price, ordinary_income)
                /\ UNCHANGED calc

\* Rows of the frame load_stock_data returns: sold with a price, sold
\* without a price, not sold, and of a plan that is neither RSU nor ESPP
LotRows ==
    { LotRow("RSU", datetime(2023, 1, 31), Some(datetime(2025, 3, 1)), 300, 10, "g1"),
      LotRow("RSU", datetime(2024, 2, 29), Some(datetime(2025, 10, 23)), 0, 10, "g2"),
      LotRow("RSU", datetime(2024, 2, 29), None, 0, 1, "g3"),
      LotRow("ESPP", datetime(2023, 1, 31), Some(datetime(2025, 3, 1)), 0, 10, "g4"),
      LotRow("ESPP", datetime(2024, 2, 29), None, 0, 1, "g5"),
      LotRow("Unknown", datetime(2024, 2, 29), None, 0, 1, "g6") }

\* The date datetime.now() gives
Today == datetime(2025, 12, 1)

\* A price history with a closing price on every date the rows need, and
\* the histories that lack one or two of these dates
FullHistory ==
    [d \in {datetime(2022, 8, 1), datetime(2023, 1, 31), datetime(2023, 8, 1), datetime(2024, 2, 29), datetime(2025, 3, 1), datetime(2025, 10, 23), datetime(2025, 11, 3), Today} |->
        IF d.year = 2022 THEN 300 ELSE IF d.year = 2023 THEN 200 ELSE IF d.year = 2024 THEN 100 ELSE 250]

Histories ==
    { [d \in DOMAIN FullHistory \ missing |-> FullHistory[d]] : missing \in {m \in SUBSET DOMAIN FullHistory : Cardinality(m) <= 1} \cup {{datetime(2025, 11, 3), Today}} }

CallAllTaxes ==
    /\ Idle
    /\ \E history \in Histories, rows \in SeqsUpTo(LotRows, MaxLots), sold_date \in {None, Some(datetime(2025, 11, 3))}, sold_only \in BOOLEAN :
        /\ op' = "calculate_all_taxes"
        /\ args' = [history |-> history, now |-> Today, rows |-> rows, ordinary_income |-> 300000, sold_date |-> sold_date, sold_only |-> sold_only]
        /\ ret' = calculate_all_taxes(history, Today, rows, 300000, sold_date, sold_only)
        /\ UNCHANGED calc

NextEquity ==
    \/ CallVerifyEsppClassification
    \/ CallIsQualifyingEsppDisposition
    \/ CallRsuTaxes
    \/ CallEsppTaxes
    \/ CallAllTaxes
    \/ Return

SpecEquity == Init /\ [][NextEquity]_vars

(***************************************************************************)
(* The inputs of a liability: the arguments of the constructor, the W-2    *)
(* file (TaxCalculator.load_w2_data) and the scanned forms                 *)
(* (form_scanner.scan_form_multi, tax_app.build_tax_inputs).               *)
(***************************************************************************)
\* str.lower() over the spellings of the filing statuses and plan types the
\* model draws
lower(s) ==
    IF s = "Single" THEN "single" ELSE IF s = "MFJ" THEN "mfj"
    ELSE IF s = "Rest. Stock" THEN "rest. stock"
    ELSE IF s = "RSU" THEN "rsu" ELSE IF s = "ESPP" THEN "espp" ELSE s

\* A constructor that takes neither a missing tax year nor a missing filing
\* status
TaxCalculator_init_required(tax_year, status, now) ==
    IF tax_year = None \/ status = None \/ lower(Value(status)) \notin VALID_FILING_STATUSES
    THEN [raises |-> Some("ValueError")]
    ELSE [raises |-> None, current_year |-> Value(tax_year),
          filing_status |-> lower(Value(status))]

\* The first lines of TaxCalculator.__init__: the tax year and the filing
\* status of the calculator.  An argument the caller does not pass is None;
\* now is datetime.now().  The tables the constructor loads afterwards are
\* the ones of Init.
TaxCalculator_init(tax_year, status, now) ==
    LET year == IF tax_year # None /\ Value(tax_year) # 0
                THEN Value(tax_year) ELSE now.year
        given == IF status = None THEN "single" ELSE Value(status)
    IN  IF lower(given) \notin VALID_FILING_STATUSES
        THEN [raises |-> Some("ValueError")]
        ELSE [raises |-> None, current_year |-> year,
              filing_status |-> lower(given)]

\* The fields of the W-2 file with a name that starts with box14_
box14_fields == {"box14_rsu", "box14_espp"}

\* load_w2_data on the Field -> Value rows of the file (whole dollars)
load_w2_data(raw) ==
    LET w2 == [tax_year |-> Get(raw, "tax_year", current_year),
               wages |-> Get(raw, "box1_wages", 0),
               federal_tax_withheld |-> Get(raw, "box2_federal_withheld", 0),
               ss_wages |-> Get(raw, "box3_ss_wages", 0),
               ss_tax_withheld |-> Get(raw, "box4_ss_withheld", 0),
               medicare_wages |-> Get(raw, "box5_medicare_wages", 0),
               medicare_tax_withheld |-> Get(raw, "box6_medicare_withheld", 0),
               box12c_life_insurance |-> Get(raw, "box12c_life_insurance", 0),
               box12d_401k |-> Get(raw, "box12d_401k", 0),
               box12w_hsa |-> Get(raw, "box12w_hsa", 0),
               state |-> Get(raw, "box15_state", ""),
               state_wages |-> Get(raw, "box16_state_wages", 0),
               state_tax_withheld |-> Get(raw, "box17_state_tax", 0)]
        extras == DOMAIN raw \cap box14_fields
    IN  [k \in DOMAIN w2 \cup extras |-> IF k \in extras THEN raw[k] ELSE w2[k]]

\* form_parsers.PARSERS
PARSERS == {"W-2", "1099-B", "1099-INT", "1098"}

\* What the parser of a form type returns on the text of a file; the empty
\* dict stands for a form type without a parser.  The parsers of the W-2,
\* the 1099-INT and the 1098 are not modelled: the file carries their output
\* (the fields build_tax_inputs reads).
parser_output(file, form_type, tax_year, now) ==
    IF form_type = "1099-B"
    THEN parse_1099b(file.text,
             IF tax_year # None /\ Value(tax_year) # 0
             THEN Value(tax_year) ELSE now.year)
    ELSE IF form_type \in PARSERS THEN file.parsed[form_type]
    ELSE <<>>

\* form_scanner._has_data
has_data(form_type, data) ==
    IF data = <<>> THEN FALSE
    ELSE IF form_type = "1099-B" THEN Len(data) > 0
    ELSE IF form_type = "1099-INT" THEN Get(data, "total_interest", 0) > 0
    ELSE IF form_type = "1098"
    THEN Get(data, "mortgage_interest", 0) > 0 \/ Get(data, "property_taxes", 0) > 0
    ELSE IF form_type = "W-2" THEN Get(data, "wages", 0) > 0
    ELSE TRUE

\* The body of the loop of scan_form_multi: the results after the parser of
\* form_type has returned data.
scan_form_type(file, form_type, data, results) ==
    IF form_type \in PARSERS /\ has_data(form_type, data)
    THEN Append(results, [form_type |-> form_type, data |-> data,
                          source_file |-> file.name])
    ELSE results

\* The loop of scan_form_multi from the detected form type k on.
RECURSIVE scan_form_multi_from(_, _, _, _, _)
scan_form_multi_from(file, tax_year, now, k, results) ==
    IF k > Len(file.form_types) THEN results
    ELSE scan_form_multi_from(file, tax_year, now, k + 1,
             scan_form_type(file, file.form_types[k],
                 parser_output(file, file.form_types[k], tax_year, now),
                 results))

\* The end of scan_form_multi: a single result without data when no parser
\* has produced any.
scan_results(file, results) ==
    IF results = <<>>
    THEN << [form_type |-> file.form_types[1], data |-> <<>>,
             source_file |-> file.name] >>
    ELSE results

\* scan_form_multi; file.form_types is what detect_all_form_types finds in
\* the text, <<"unknown">> when it finds no signature.  The raw_text of a
\* result is left out.
scan_form_multi(file, tax_year, now) ==
    scan_results(file, scan_form_multi_from(file, tax_year, now, 1, <<>>))

\* The scanning loop of tax_app.main (not interactive) from file k on.
RECURSIVE scan_files_from(_, _, _, _, _)
scan_files_from(files, tax_year, now, k, scanned) ==
    IF k > Len(files) THEN scanned
    ELSE scan_files_from(files, tax_year, now, k + 1,
             scanned \o scan_form_multi(files[k], tax_year, now))

scan_files(files, tax_year, now) == scan_files_from(files, tax_year, now, 1, <<>>)

\* The loop of build_tax_inputs from form k on.  The data of a 1099-B form
\* that is no list is the empty dict, which adds nothing either.
RECURSIVE build_tax_inputs_from(_, _, _)
build_tax_inputs_from(scanned_forms, k, acc) ==
    IF k > Len(scanned_forms) THEN acc
    ELSE LET ft == scanned_forms[k].form_type
             data == scanned_forms[k].data
         IN  build_tax_inputs_from(scanned_forms, k + 1,
                 IF ft = "W-2"
                 THEN [acc EXCEPT !.w2_wages = @ + Get(data, "wages", 0),
                                  !.fed_withheld = @ + Get(data, "federal_tax_withheld", 0),
                                  !.state_wages = @ + Get(data, "state_wages", 0),
                                  !.state_tax_withheld = @ + Get(data, "state_tax_withheld", 0)]
                 ELSE IF ft = "1099-B"
                 THEN [acc EXCEPT !.stock_results = @ \o data]
                 ELSE IF ft = "1099-INT"
                 THEN [acc EXCEPT !.interest_income = @ + Get(data, "total_interest", 0)]
                 ELSE IF ft = "1098"
                 THEN [acc EXCEPT !.mortgage_interest = @ + Get(data, "mortgage_interest", 0),
                                  !.property_taxes = @ + Get(data, "property_taxes", 0),
                                  !.mortgage_insurance = @ + Get(data, "mortgage_insurance", 0)]
                 ELSE acc)

build_tax_inputs(scanned_forms) ==
    build_tax_inputs_from(scanned_forms, 1,
        [w2_wages |-> 0, fed_withheld |-> 0, state_wages |-> 0,
         state_tax_withheld |-> 0, interest_income |-> 0,
         mortgage_interest |-> 0, property_taxes |-> 0,
         mortgage_insurance |-> 0, stock_results |-> <<>>])

(***************************************************************************)
(* Calls of the constructor, load_w2_data, scan_form_multi and             *)
(* build_tax_inputs                                                        *)
(***************************************************************************)
\* number of files given to the application
MaxFiles == 2

\* The clock of the caller: in the tax year, and in the filing season after
Clocks == {datetime(2025, 12, 1), datetime(2026, 4, 1)}

CallTaxCalculator ==
    /\ Idle
    /\ \E tax_year \in {None, Some(0), Some(2024), Some(2025)}, status \in {None, Some("single"), Some("Single"), Some("MFJ"), Some("mfs"), Some("hoh"), Some("married"), Some("")}, now \in Clocks :
        /\ op' = "TaxCalculator"
        /\ args' = [tax_year |-> tax_year, filing_status |-> status, now |-> now]
        /\ ret' = TaxCalculator_init(tax_year, status, now)
        /\ UNCHANGED calc

\* The rows of a W-2 file
FullW2 ==
    [tax_year |-> 2024, box1_wages |-> 180000, box2_federal_withheld |-> 30000, box3_ss_wages |-> 168600, box4_ss_withheld |-> 10453, box5_medicare_wages |-> 190000, box6_medicare_withheld |-> 2755, box12c_life_insurance |-> 120, box12d_401k |-> 23000, box12w_hsa |-> 4150, box15_state |-> "CA", box16_state_wages |-> 180000, box17_state_tax |-> 12000, box14_rsu |-> 50000]

\* A W-2 file with all rows, and the files that lack some of them
W2Files ==
    { [f \in DOMAIN FullW2 \ missing |-> FullW2[f]] : missing \in {{}, {"box1_wages"}, {"tax_year"}, {"box1_wages", "tax_year"}, {"box14_rsu"}, {"box15_state", "box16_state_wages", "box17_state_tax"}, DOMAIN FullW2} }

CallLoadW2Data ==
    /\ Idle
    /\ \E raw \in W2Files :
        /\ op' = "load_w2_data"
        /\ args' = [raw |-> raw]
        /\ ret' = load_w2_data(raw)
        /\ UNCHANGED calc

\* The lots of a brokerage statement as its detail page prints them: date
\* acquired, date sold, PROCEEDS, COST BASIS, MKT DISCOUNT, WASH SALE,
\* GAIN/LOSS
StatementLots ==
    << [date1 |-> Some(datetime(2025, 1, 10)), date2 |-> Some(datetime(2025, 6, 10)), amounts |-> Line(<<900, 1000, 0, 60, -100>>)],
       [date1 |-> Some(datetime(2023, 1, 10)), date2 |-> Some(datetime(2025, 6, 10)), amounts |-> Line(<<2000, 1500, 0, 0, 500>>)],
       [date1 |-> Some(datetime(2025, 2, 3)), date2 |-> Some(datetime(2025, 3, 3)), amounts |-> Line(<<700, 400, 0, 0, 300>>)] >>

\* The statements of the model: the lots each of them reports
Statements == { <<StatementLots[1]>>, <<StatementLots[1], StatementLots[2]>>, <<StatementLots[3]>> }

\* The sum of column c over the lots of a statement held long (or not)
RECURSIVE lots_total(_, _, _)
lots_total(lots, long, c) ==
    IF lots = <<>> THEN 0
    ELSE (IF (days_between(Value(Head(lots).date2), Value(Head(lots).date1)) > 365) = long
          THEN parse_amount(Head(lots).amounts[c]) ELSE 0)
         + lots_total(Tail(lots), long, c)

\* The totals line the statement prints for a term: none when the statement
\* has no lot of the term
totals_line(lots, long) ==
    IF lots_total(lots, long, 1) = 0 THEN None
    ELSE Some(Line([c \in 1..5 |-> lots_total(lots, long, c)]))

\* The text of the totals page of a statement (box lines, or "Total ...
\* Term" lines), of its detail page, and of both pages
totals_page(lots, boxed) ==
    IF boxed
    THEN [EmptyText EXCEPT !.boxes = [b \in {"A", "B", "D", "E"} |-> IF b = "A" THEN totals_line(lots, FALSE) ELSE IF b = "D" THEN totals_line(lots, TRUE) ELSE None]]
    ELSE [EmptyText EXCEPT !.totals = [t \in {"Short", "Long"} |-> totals_line(lots, t = "Long")]]

detail_page(lots) == [EmptyText EXCEPT !.rows_acquired_first = TRUE, !.rows = lots]

both_pages(lots, boxed) == [totals_page(lots, boxed) EXCEPT !.rows_acquired_first = TRUE, !.rows = lots]

\* What the other parsers find in a file: nothing, a W-2, a 1098, a 1099-INT
NoForms ==
    [t \in PARSERS \ {"1099-B"} |-> IF t = "W-2" THEN [wages |-> 0, federal_tax_withheld |-> 0, state_wages |-> 0, state_tax_withheld |-> 0] ELSE IF t = "1098" THEN [mortgage_interest |-> 0, property_taxes |-> 0, mortgage_insurance |-> 0] ELSE [total_interest |-> 0]]

\* The files given to the application.  statement is the statement a
\* 1099-B file is a page of (None for the other files).
StatementFiles ==
    { [name |-> "1099b_all", form_types |-> <<"1099-B">>, text |-> both_pages(lots, boxed), parsed |-> NoForms, statement |-> Some(lots)] : lots \in Statements, boxed \in BOOLEAN }
      \cup
    { [name |-> "1099b_p1", form_types |-> <<"1099-B">>, text |-> totals_page(lots, boxed), parsed |-> NoForms, statement |-> Some(lots)] : lots \in Statements, boxed \in BOOLEAN }
      \cup
    { [name |-> "1099b_p2", form_types |-> <<"1099-B">>, text |-> detail_page(lots), parsed |-> NoForms, statement |-> Some(lots)] : lots \in Statements }

OtherFiles ==
    { [name |-> "w2", form_types |-> <<"W-2">>, text |-> EmptyText, parsed |-> [NoForms EXCEPT !["W-2"] = [wages |-> 180000, federal_tax_withheld |-> 30000, state_wages |-> 180000, state_tax_withheld |-> 12000]], statement |-> None],
      [name |-> "w2_blurred", form_types |-> <<"W-2">>, text |-> EmptyText, parsed |-> NoForms, statement |-> None],
      [name |-> "1098", form_types |-> <<"1098">>, text |-> EmptyText, parsed |-> [NoForms EXCEPT !["1098"] = [mortgage_interest |-> 15000, property_taxes |-> 9000, mortgage_insurance |-> 600]], statement |-> None],
      [name |-> "consolidated", form_types |-> <<"1099-B", "1099-INT">>, text |-> EmptyText, parsed |-> [NoForms EXCEPT !["1099-INT"] = [total_interest |-> 250]], statement |-> None],
      [name |-> "letter", form_types |-> <<"unknown">>, text |-> EmptyText, parsed |-> NoForms, statement |-> None] }

Files == StatementFiles \cup OtherFiles

CallScanFormMulti ==
    /\ Idle
    /\ \E file \in Files, tax_year \in {None, Some(2025)}, now \in Clocks :
        /\ op' = "scan_form_multi"
        /\ args' = [file |-> file, tax_year |-> tax_year, now |-> now]
        /\ ret' = scan_form_multi(file, tax_year, now)
        /\ UNCHANGED calc

\* build_tax_inputs(scanned_forms), the forms scanned from the files
BuildTaxInputs(files, scanned_forms) ==
    /\ op' = "build_tax_inputs"
    /\ args' = [files |-> files, scanned_forms |-> scanned_forms]
    /\ ret' = build_tax_inputs(scanned_forms)
    /\ UNCHANGED calc

\* build_tax_inputs on what tax_app.main scans from the files for 2025
CallBuildTaxInputs ==
    /\ Idle
    /\ \E files \in SeqsUpTo(Files, MaxFiles) :
        BuildTaxInputs(files, scan_files(files, Some(2025), datetime(2026, 4, 1)))

(***************************************************************************)
(* Bonus allocation: TaxCalculator.calculate_bonus_allocation_proceeds and *)
(* calculate_bonus_allocation_proceeds_with_taxes.                         *)
(*                                                                         *)
(* Percentages, prices and the bonus are whole numbers.  A quotient of the *)
(* source is the exact fraction <<numerator, denominator>>; a rate is per  *)
(* mille.  The outcome of a call is the exception it raises (None when it  *)
(* returns), the dates whose price it has looked up, and the results.      *)
(***************************************************************************)
\* A bonus allocation that does not validate the target price
calculate_bonus_allocation_proceeds_unchecked_target(history, bonus_amount, purchase_date, rsu_percentage, iso_percentage, target_price) ==
    IF rsu_percentage + iso_percentage # 100 \/ bonus_amount <= 0
    THEN [raises |-> Some("ValueError"), message |-> "", price_lookups |-> <<>>]
    ELSE IF get_stock_price(history, purchase_date) = 0
    THEN [raises |-> Some("ZeroDivisionError"), message |-> "", price_lookups |-> <<purchase_date>>]
    ELSE [raises |-> None,
          price_lookups |-> <<purchase_date>>,
          results |->
              [historical_price |-> get_stock_price(history, purchase_date),
               rsu_allocation |-> <<bonus_amount * rsu_percentage, 100>>,
               rsu_proceeds |-> <<bonus_amount * rsu_percentage * target_price, 100 * get_stock_price(history, purchase_date)>>,
               iso_proceeds |-> <<bonus_amount * iso_percentage * 3 * (target_price - get_stock_price(history, purchase_date)), 100 * get_stock_price(history, purchase_date)>>]]

calculate_bonus_allocation_proceeds(history, bonus_amount, purchase_date, rsu_percentage, iso_percentage, target_price) ==
    IF rsu_percentage + iso_percentage # 100
    THEN [raises |-> Some("ValueError"), message |-> "RSU and ISO percentages must sum to 100%", price_lookups |-> <<>>]
    ELSE IF bonus_amount <= 0
    THEN [raises |-> Some("ValueError"), message |-> "Bonus amount must be positive", price_lookups |-> <<>>]
    ELSE IF target_price <= 0
    THEN [raises |-> Some("ValueError"), message |-> "Target price must be positive", price_lookups |-> <<>>]
    ELSE LET historical_price == get_stock_price(history, purchase_date)
             den == 100 * historical_price
             rsu_allocation == <<bonus_amount * rsu_percentage, 100>>
             iso_allocation == <<bonus_amount * iso_percentage, 100>>
             rsu_shares == <<rsu_allocation[1], den>>
             iso_shares_base == <<iso_allocation[1], den>>
             iso_shares_total == <<iso_shares_base[1] * 3, den>>
             rsu_proceeds == <<rsu_shares[1] * target_price, den>>
             iso_gain_per_share == target_price - historical_price
             iso_proceeds == <<iso_shares_total[1] * iso_gain_per_share, den>>
             total_proceeds == <<rsu_proceeds[1] + iso_proceeds[1], den>>
             rsu_gain == <<rsu_proceeds[1] - rsu_allocation[1] * historical_price, den>>
             iso_gain == iso_proceeds
             total_gain == <<rsu_gain[1] + iso_gain[1], den>>
             net == <<total_proceeds[1] - bonus_amount * den, den>>
             actual_roi == <<net[1], historical_price * bonus_amount>>
         IN  IF historical_price = 0
             THEN [raises |-> Some("ZeroDivisionError"), message |-> "float division by zero", price_lookups |-> <<purchase_date>>]
             ELSE [raises |-> None,
                   price_lookups |-> <<purchase_date>>,
                   results |->
                       [bonus_amount |-> bonus_amount,
                        purchase_date |-> purchase_date,
                        historical_price |-> historical_price,
                        target_price |-> target_price,
                        rsu_percentage |-> rsu_percentage,
                        iso_percentage |-> iso_percentage,
                        rsu_allocation |-> rsu_allocation,
                        iso_allocation |-> iso_allocation,
                        rsu_shares |-> rsu_shares,
                        iso_shares_base |-> iso_shares_base,
                        iso_shares_total |-> iso_shares_total,
                        rsu_proceeds |-> rsu_proceeds,
                        iso_proceeds |-> iso_proceeds,
                        total_proceeds |-> total_proceeds,
                        rsu_gain |-> rsu_gain,
                        iso_gain |-> iso_gain,
                        total_gain |-> total_gain,
                        total_return_percentage |-> actual_roi,
                        net_gain_loss |-> net]]

calculate_bonus_allocation_proceeds_with_taxes(history, bonus_amount, purchase_date, rsu_percentage, iso_percentage, target_price, ordinary_income) ==
    LET basic == calculate_bonus_allocation_proceeds(history, bonus_amount, purchase_date, rsu_percentage, iso_percentage, target_price)
        basic_results == basic.results
        den == 100 * basic_results.historical_price
        rsu_proceeds == basic_results.rsu_proceeds
        iso_proceeds == basic_results.iso_proceeds
        rsu_allocation == basic_results.rsu_allocation
        rsu_gain == <<rsu_proceeds[1] - rsu_allocation[1] * basic_results.historical_price, den>>
        ltcg_rate == calculate_capital_gains_rate(ordinary_income)
        rsu_taxes == <<rsu_gain[1] * ltcg_rate, den * 1000>>
        rsu_after_tax_proceeds == <<rsu_proceeds[1] * 1000 - rsu_taxes[1], den * 1000>>
        marginal_tax_rate == calculate_marginal_tax_rate(ordinary_income)
        iso_taxes == <<iso_proceeds[1] * marginal_tax_rate, den * 1000>>
        iso_after_tax_proceeds == <<iso_proceeds[1] * 1000 - iso_taxes[1], den * 1000>>
        total_taxes == <<rsu_taxes[1] + iso_taxes[1], den * 1000>>
        total_after_tax_proceeds == <<rsu_after_tax_proceeds[1] + iso_after_tax_proceeds[1], den * 1000>>
        net_after_tax_gain == <<total_after_tax_proceeds[1] - bonus_amount * den * 1000, den * 1000>>
        after_tax_roi == <<net_after_tax_gain[1], den * 10 * bonus_amount>>
        update ==
            [ordinary_income |-> ordinary_income,
             ltcg_tax_rate |-> ltcg_rate,
             marginal_tax_rate |-> marginal_tax_rate,
             rsu_gain |-> rsu_gain,
             rsu_taxes |-> rsu_taxes,
             rsu_after_tax_proceeds |-> rsu_after_tax_proceeds,
             iso_taxes |-> iso_taxes,
             iso_after_tax_proceeds |-> iso_after_tax_proceeds,
             total_taxes |-> total_taxes,
             total_after_tax_proceeds |-> total_after_tax_proceeds,
             net_after_tax_gain |-> net_after_tax_gain,
             after_tax_roi |-> after_tax_roi,
             effective_tax_rate |->
                 IF rsu_gain[1] + iso_proceeds[1] > 0
                 THEN <<total_taxes[1], (rsu_gain[1] + iso_proceeds[1]) * 10>>
                 ELSE <<0, 1>>]
    IN  IF basic.raises # None THEN basic
        ELSE [basic EXCEPT !.results =
                 [k \in DOMAIN basic_results \cup DOMAIN update |->
                     IF k \in DOMAIN update THEN update[k] ELSE basic_results[k]]]

(***************************************************************************)
(* Calls of the bonus allocation                                           *)
(***************************************************************************)
BonusAmounts == {-100, 0, 100}

\* <<rsu_percentage, iso_percentage>>
BonusSplits == {<<60, 40>>, <<100, 0>>, <<0, 100>>, <<50, 40>>, <<60, 50>>}

TargetPrices == {-5, 0, 10, 30}

\* The price history: the grant date has a closing price, the holiday has
\* none
BonusHistory == [d \in {datetime(2024, 3, 15)} |-> 20]

BonusDates == {datetime(2024, 3, 15), datetime(2024, 12, 25)}

CallBonusAllocationProceeds ==
    /\ Idle
    /\ \E bonus_amount \in BonusAmounts, split \in BonusSplits, target_price \in TargetPrices, purchase_date \in BonusDates :
        /\ op' = "calculate_bonus_allocation_proceeds"
        /\ args' = [history |-> BonusHistory, bonus_amount |-> bonus_amount, purchase_date |-> purchase_date, rsu_percentage |-> split[1], iso_percentage |-> split[2], target_price |-> target_price]
        /\ ret' = calculate_bonus_allocation_proceeds(BonusHistory, bonus_amount, purchase_date, split[1], split[2], target_price)
        /\ UNCHANGED calc

CallBonusAllocationProceedsWithTaxes ==
    /\ Idle
    /\ \E bonus_amount \in BonusAmounts, split \in BonusSplits, target_price \in TargetPrices, purchase_date \in BonusDates, ordinary_income \in EquityIncomes :
        /\ op' = "calculate_bonus_allocation_proceeds_with_taxes"
        /\ args' = [history |-> BonusHistory, bonus_amount |-> bonus_amount, purchase_date |-> purchase_date, rsu_percentage |-> split[1], iso_percentage |-> split[2], target_price |-> target_price, ordinary_income |-> ordinary_income]
        /\ ret' = calculate_bonus_allocation_proceeds_with_taxes(BonusHistory, bonus_amount, purchase_date, split[1], split[2], target_price, ordinary_income)
        /\ UNCHANGED calc

(***************************************************************************)
(* Schedule A: TaxCalculator.calculate_itemized_deductions.                *)
(*                                                                         *)
(* The arguments are whole dollars and rental_pct is a whole percentage;   *)
(* the amounts of the result are cents.  The mortgage insurance after the  *)
(* phase-out and the total are exact fractions <<cents, denominator>> in   *)
(* lowest terms.  self is the calculator the method is called on: its      *)
(* current_year and filing_status.                                         *)
(***************************************************************************)
RECURSIVE gcd(_, _)
gcd(a, b) == IF b = 0 THEN a ELSE gcd(b, a % b)

\* The fraction n / d (d > 0) in lowest terms
reduce(n, d) == <<n \div gcd(Abs(n), d), d \div gcd(Abs(n), d)>>

\* Schedule A with the SALT cap of the years before 2025 in every year
calculate_itemized_deductions_old_cap(self, mortgage_interest, property_taxes, state_income_tax, mortgage_insurance, rental_pct, agi) ==
    LET personal_pct == 100 - rental_pct
        salt_uncapped == Cents(state_income_tax) + property_taxes * personal_pct
        salt_cap == IF self.filing_status = "mfs" THEN 5000 ELSE 10000
    IN  [mortgage_interest |-> mortgage_interest * personal_pct,
         salt_state_income_tax |-> Cents(state_income_tax),
         salt_property_taxes |-> property_taxes * personal_pct,
         salt_uncapped |-> salt_uncapped,
         salt_deduction |-> Min(salt_uncapped, Cents(salt_cap)),
         salt_cap |-> Cents(salt_cap),
         salt_limited |-> salt_uncapped > Cents(salt_cap),
         mortgage_insurance |-> <<0, 1>>,
         mortgage_insurance_phased_out |-> self.current_year >= 2026 /\ agi >= 110000,
         total_itemized |-> <<mortgage_interest * personal_pct + Min(salt_uncapped, Cents(salt_cap)), 1>>]

\* Schedule A without the phase-out band: the mortgage insurance is
\* deductible in full below an AGI of 110,000
calculate_itemized_deductions_no_phaseout(self, mortgage_interest, property_taxes, state_income_tax, mortgage_insurance, rental_pct, agi) ==
    LET personal_pct == 100 - rental_pct
        salt_uncapped == Cents(state_income_tax) + property_taxes * personal_pct
        salt_cap == IF self.current_year >= 2025
                    THEN IF self.filing_status = "mfs" THEN 20000 ELSE 40000
                    ELSE IF self.filing_status = "mfs" THEN 5000 ELSE 10000
        insurance == IF self.current_year >= 2026 /\ agi < 110000
                     THEN mortgage_insurance * personal_pct ELSE 0
    IN  [mortgage_interest |-> mortgage_interest * personal_pct,
         salt_state_income_tax |-> Cents(state_income_tax),
         salt_property_taxes |-> property_taxes * personal_pct,
         salt_uncapped |-> salt_uncapped,
         salt_deduction |-> Min(salt_uncapped, Cents(salt_cap)),
         salt_cap |-> Cents(salt_cap),
         salt_limited |-> salt_uncapped > Cents(salt_cap),
         mortgage_insurance |-> <<insurance, 1>>,
         mortgage_insurance_phased_out |-> self.current_year >= 2026 /\ agi >= 110000,
         total_itemized |-> <<mortgage_interest * personal_pct + Min(salt_uncapped, Cents(salt_cap)) + insurance, 1>>]

calculate_itemized_deductions(self, mortgage_interest, property_taxes, state_income_tax, mortgage_insurance, rental_pct, agi) ==
    LET personal_pct == 100 - rental_pct
        personal_mortgage_interest == mortgage_interest * personal_pct
        personal_property_taxes == property_taxes * personal_pct
        salt_uncapped == Cents(state_income_tax) + personal_property_taxes
        salt_cap == IF self.current_year >= 2025
                    THEN IF self.filing_status = "mfs" THEN 20000 ELSE 40000
                    ELSE IF self.filing_status = "mfs" THEN 5000 ELSE 10000
        salt_deduction == Min(salt_uncapped, Cents(salt_cap))
        personal_mortgage_insurance ==
            IF self.current_year >= 2026
            THEN IF agi <= 100000 THEN <<mortgage_insurance * personal_pct, 1>>
                 ELSE IF agi < 110000
                 THEN reduce(mortgage_insurance * personal_pct * (110000 - agi), 10000)
                 ELSE <<0, 1>>
            ELSE <<0, 1>>
    IN  [mortgage_interest |-> personal_mortgage_interest,
         salt_state_income_tax |-> Cents(state_income_tax),
         salt_property_taxes |-> personal_property_taxes,
         salt_uncapped |-> salt_uncapped,
         salt_deduction |-> salt_deduction,
         salt_cap |-> Cents(salt_cap),
         salt_limited |-> salt_uncapped > Cents(salt_cap),
         mortgage_insurance |-> personal_mortgage_insurance,
         mortgage_insurance_phased_out |-> self.current_year >= 2026 /\ agi >= 110000,
         total_itemized |->
             <<(personal_mortgage_interest + salt_deduction) * personal_mortgage_insurance[2] + personal_mortgage_insurance[1],
               personal_mortgage_insurance[2]>>]

(***************************************************************************)
(* Calls of calculate_itemized_deductions                                  *)
(***************************************************************************)
\* The tax years of the calculators the method is called on: before the
\* higher SALT cap, with it, and with the mortgage insurance deduction
ItemizedYears == {2024, 2025, 2026}

\* The AGIs of the calls: at the threshold of the mortgage insurance
\* phase-out, in the band, and at its end
ItemizedAgis == {100000, 105000, 109999, 110000}

CallItemizedDeductions ==
    /\ Idle
    /\ \E tax_year \in ItemizedYears, status \in VALID_FILING_STATUSES, mortgage_interest \in {0, 15000}, property_taxes \in {0, 6000, 30000}, state_income_tax \in {4000, 14000, 34000}, mortgage_insurance \in {0, 600}, rental_pct \in {0, 25, 100}, agi \in ItemizedAgis :
        LET self == TaxCalculator_init(Some(tax_year), Some(status), datetime(2026, 4, 1))
        IN  /\ op' = "calculate_itemized_deductions"
            /\ args' = [self |-> self, mortgage_interest |-> mortgage_interest, property_taxes |-> property_taxes, state_income_tax |-> state_income_tax, mortgage_insurance |-> mortgage_insurance, rental_pct |-> rental_pct, agi |-> agi]
            /\ ret' = calculate_itemized_deductions(self, mortgage_interest, property_taxes, state_income_tax, mortgage_insurance, rental_pct, agi)
            /\ UNCHANGED calc

NextInputs ==
    \/ CallTaxCalculator
    \/ CallLoadW2Data
    \/ CallScanFormMulti
    \/ CallBuildTaxInputs
    \/ CallBonusAllocationProceeds
    \/ CallBonusAllocationProceedsWithTaxes
    \/ CallItemizedDeductions
    \/ Return

SpecInputs == Init /\ [][NextInputs]_vars

(***************************************************************************)
(* Schedule E (calculate_rental_income)                                    *)
(* Amounts are whole dollars, rental_pct is a whole percentage, and every  *)
(* result is the exact fraction <<numerator, denominator>> of dollars.     *)
(***************************************************************************)
times(a, b) == reduce(a[1] * b[1], a[2] * b[2])

plus(a, b) == reduce(a[1] * b[2] + b[1] * a[2], a[2] * b[2])

minus(a, b) == reduce(a[1] * b[2] - b[1] * a[2], a[2] * b[2])

\* Depreciation that counts the month placed in service as a whole month.
rental_depreciation_whole_month(home_purchase_price, rental_pct, rental_start_month) ==
    IF home_purchase_price > 0
    THEN times(times(times(<<home_purchase_price, 1>>, <<80, 100>>),
                     <<rental_pct, 100>>),
               times(<<10, 275>>, <<12 - rental_start_month + 1, 12>>))
    ELSE <<0, 1>>

\* Residential rental depreciation: 27.5 years on 80% of the purchase price,
\* mid-month convention for the month placed in service.
rental_depreciation(home_purchase_price, rental_pct, rental_start_month) ==
    IF home_purchase_price > 0
    THEN LET building_value == times(<<home_purchase_price, 1>>, <<80, 100>>)
             rental_building == times(building_value, <<rental_pct, 100>>)
             annual_depreciation == times(rental_building, <<10, 275>>)
             months_in_service == <<2 * (12 - rental_start_month) + 1, 2>>
         IN  times(annual_depreciation, times(months_in_service, <<1, 12>>))
    ELSE <<0, 1>>

calculate_rental_income(rental_pct, mortgage_interest, property_taxes, rental_income, other_rental_income, mortgage_insurance, hoa, insurance, supplies, electricity, telephone, home_purchase_price, rental_start_month) ==
    LET total_income == rental_income + other_rental_income
        pct == <<rental_pct, 100>>
        exp == [mortgage_interest |-> times(<<mortgage_interest, 1>>, pct),
                property_taxes |-> times(<<property_taxes, 1>>, pct),
                mortgage_insurance |-> times(<<mortgage_insurance, 1>>, pct),
                hoa |-> times(<<hoa, 1>>, pct),
                insurance |-> times(<<insurance, 1>>, pct),
                supplies |-> times(<<supplies, 1>>, pct),
                electricity |-> times(<<electricity, 1>>, pct),
                telephone |-> times(<<telephone, 1>>, pct),
                depreciation |-> rental_depreciation(home_purchase_price,
                                     rental_pct, rental_start_month)]
        total_expenses ==
            plus(plus(plus(plus(exp.mortgage_interest, exp.property_taxes),
                           plus(exp.mortgage_insurance, exp.hoa)),
                      plus(plus(exp.insurance, exp.supplies),
                           plus(exp.electricity, exp.telephone))),
                 exp.depreciation)
    IN  [rental_income |-> rental_income,
         other_rental_income |-> other_rental_income,
         total_income |-> total_income,
         rental_pct |-> rental_pct,
         expenses |-> exp,
         total_expenses |-> total_expenses,
         net_rental_income |-> minus(<<total_income, 1>>, total_expenses)]

CallRentalIncome ==
    /\ Idle
    /\ \E rental_pct \in {0, 20, 100}, mortgage_interest \in {0, 8000},
          rental_income \in {0, 12000}, other_rental_income \in {0, 500},
          mortgage_insurance \in {0, 600}, electricity \in {0, 450},
          home_purchase_price \in {-100000, 0, 330000},
          rental_start_month \in {1, 4, 12} :
        /\ op' = "calculate_rental_income"
        /\ args' = [rental_pct |-> rental_pct,
                    mortgage_interest |-> mortgage_interest,
                    property_taxes |-> 3000, rental_income |-> rental_income,
                    other_rental_income |-> other_rental_income,
                    mortgage_insurance |-> mortgage_insurance, hoa |-> 1200,
                    insurance |-> 900, supplies |-> 75,
                    electricity |-> electricity, telephone |-> 240,
                    home_purchase_price |-> home_purchase_price,
                    rental_start_month |-> rental_start_month]
        /\ ret' = calculate_rental_income(rental_pct, mortgage_interest, 3000,
                      rental_income, other_rental_income, mortgage_insurance,
                      1200, 900, 75, electricity, 240, home_purchase_price,
                      rental_start_month)
        /\ UNCHANGED calc

(***************************************************************************)
(* The federal report (generate_tax_liability_report)                      *)
(* The report is modelled by the sections it prints and by the KeyError of *)
(* the first subscript whose key the record does not have.                 *)
(***************************************************************************)
\* The first key of keys that the record r does not have
missing_key(keys, r) ==
    LET missing == {i \in 1..Len(keys) : keys[i] \notin DOMAIN r}
    IN  IF missing = {} THEN None
        ELSE Some(keys[CHOOSE i \in missing : \A j \in missing : i <= j])

generate_tax_liability_report(liability, stock_results) ==
    LET rental_detail == liability.rental_detail
        show_rental == /\ rental_detail # None
                       /\ DOMAIN Value(rental_detail) # {}
        rental_key ==
            IF show_rental
            THEN missing_key(<<"rental_pct", "rental_income", "total_income",
                               "expenses", "total_expenses",
                               "net_rental_income">>, Value(rental_detail))
            ELSE None
        itemized_detail == liability.itemized_detail
        show_itemized == /\ itemized_detail # None
                         /\ DOMAIN Value(itemized_detail) # {}
                         /\ liability.deduction_type = "Itemized"
        itemized_key ==
            IF show_itemized
            THEN missing_key(<<"mortgage_interest", "salt_deduction",
                               "salt_limited", "total_itemized">>,
                             Value(itemized_detail))
            ELSE None
        is_1099b == \E k \in 1..Len(stock_results) :
                        Get(stock_results[k], "source", "") = "1099-B"
        detail_rows == {k \in 1..Len(stock_results) :
                            missing_key(<<"acquired_date", "total_gain",
                                          "stock_type", "shares", "tax_type">>,
                                        stock_results[k]) # None}
        stock_key ==
            IF is_1099b \/ detail_rows = {} THEN None
            ELSE missing_key(<<"acquired_date", "total_gain", "stock_type",
                               "shares", "tax_type">>,
                     stock_results[CHOOSE k \in detail_rows :
                                       \A j \in detail_rows : k <= j])
        key == IF rental_key # None THEN rental_key
               ELSE IF itemized_key # None THEN itemized_key
               ELSE stock_key
    IN  IF key # None
        THEN [raises |-> Some("KeyError"), key |-> Value(key)]
        ELSE [raises |-> None,
              sections |->
                  <<"INCOME">>
                  \o (IF show_rental THEN <<"SCHEDULE E - RENTAL INCOME">>
                      ELSE <<>>)
                  \o <<"DEDUCTIONS", "FEDERAL TAX CALCULATION",
                       "PAYMENTS & WITHHOLDINGS">>
                  \o (IF stock_results = <<>> THEN <<>>
                      ELSE IF is_1099b THEN <<"1099-B SUMMARY">>
                      ELSE <<"STOCK TRANSACTION DETAIL">>)
                  \o <<"NOTES">>]

(***************************************************************************)
(* run_annual_taxes.main                                                   *)
(* The loaded documents are the inputs; amounts are whole dollars and the  *)
(* rental share a whole percentage.  The Schedule E and Schedule A results *)
(* are exact fractions and are handed on in whole dollars.                 *)
(***************************************************************************)
\* A Schedule E result with its net amount in whole dollars
dollars_of_rental(rental_result) ==
    [rental_result EXCEPT
        !.net_rental_income = rental_result.net_rental_income[1]
                                  \div rental_result.net_rental_income[2]]

\* A Schedule A result (cents) with its total in whole dollars
dollars_of_itemized(itemized) ==
    [itemized EXCEPT
        !.total_itemized = itemized.total_itemized[1]
                               \div (itemized.total_itemized[2] * 100)]

\* The end of main: both liabilities are computed, the reports are generated.
annual_reports(stock_results, st_gains, lt_gains, liability, ca_result) ==
    [raises |-> generate_tax_liability_report(liability, stock_results).raises,
     st_gains |-> st_gains,
     lt_gains |-> lt_gains,
     liability |-> liability,
     ca_result |-> ca_result,
     federal_report |->
         generate_tax_liability_report(liability, stock_results)]

\* main from the classification of the stock gains on.
annual_liabilities(cli, w2, stock_results, mortgage, interest, st_gains, lt_gains, rental_result) ==
    LET approx_agi == w2.wages + interest.total_interest + st_gains + lt_gains
                          + rental_result.net_rental_income
        state_income_tax_for_salt ==
            Get(w2, "state_tax_withheld", 0) + Get(w2, "box14_casdi", 0)
        ca_itemized ==
            (mortgage.mortgage_interest * (100 - cli.rental_pct)) \div 100
                + (mortgage.property_taxes * (100 - cli.rental_pct)) \div 100
    IN  annual_reports(stock_results, st_gains, lt_gains,
            calculate_total_tax_liability(w2.wages, w2.federal_tax_withheld,
                stock_results, None, cli.estimated_payments,
                cli.stock_tax_withheld, interest.total_interest,
                Some(rental_result),
                Some(dollars_of_itemized(calculate_itemized_deductions(
                    [current_year |-> current_year,
                     filing_status |-> filing_status],
                    mortgage.mortgage_interest, mortgage.property_taxes,
                    state_income_tax_for_salt,
                    Get(mortgage, "mortgage_insurance", 0), cli.rental_pct,
                    approx_agi)))),
            calculate_ca_state_tax(Get(w2, "state_wages", w2.wages),
                interest.total_interest, st_gains, lt_gains,
                rental_result.net_rental_income, Some(ca_itemized),
                Get(w2, "state_tax_withheld", 0), Get(w2, "box14_casdi", 0)))

\* main of run_annual_taxes.py on the calculator TaxCalculator(tax_year=year),
\* with the documents it loaded: the W-2, the 1099-B results, the 1098 and
\* the 1099-INT.
run_annual_taxes(cli, w2, stock_results, mortgage, interest) ==
    annual_liabilities(cli, w2, stock_results, mortgage, interest,
        IF cli.st_gains # None THEN Value(cli.st_gains)
        ELSE get_1099b_summary(stock_results).short_term.taxable_gain,
        IF cli.lt_gains # None THEN Value(cli.lt_gains)
        ELSE get_1099b_summary(stock_results).long_term.taxable_gain,
        IF cli.rental_pct > 0
        THEN dollars_of_rental(calculate_rental_income(cli.rental_pct,
                 mortgage.mortgage_interest, mortgage.property_taxes,
                 cli.rental_income, cli.other_rental_income,
                 Get(mortgage, "mortgage_insurance", 0), cli.rental_hoa,
                 cli.rental_insurance, cli.rental_supplies,
                 cli.rental_electricity, cli.rental_telephone,
                 Get(mortgage, "purchase_price", 0), cli.rental_start_month))
        ELSE [net_rental_income |-> 0, depreciation |-> 0])

\* A row of load_1099b_data (the fields the liability and the summary read)
row_1099b(taxable_gain, is_long) ==
    [stock_type |-> "RSU", proceeds |-> 100000 + taxable_gain,
     cost_basis |-> 100000, total_gain |-> taxable_gain,
     raw_gain |-> taxable_gain, wash_sale_disallowed |-> 0, shares |-> 100,
     is_long_term |-> is_long, ordinary_income_portion |-> 0,
     capital_gain_portion |-> taxable_gain, source |-> "1099-B"]

AnnualRows == {row_1099b(9000, FALSE), row_1099b(60000, TRUE)}

AnnualStockResults == SeqsUpTo(AnnualRows, MaxStock)

AnnualW2s ==
    {[wages |-> 150000, federal_tax_withheld |-> 25000,
      state_wages |-> 155000, state_tax_withheld |-> 9000,
      box14_casdi |-> 1800],
     [wages |-> 260000, federal_tax_withheld |-> 50000]}

AnnualMortgages ==
    {[mortgage_interest |-> 0, property_taxes |-> 0,
      mortgage_insurance |-> 0, purchase_price |-> 0],
     [mortgage_interest |-> 8000, property_taxes |-> 3000,
      mortgage_insurance |-> 600, purchase_price |-> 330000]}

\* main constructs TaxCalculator(tax_year=year), a single filer
CallRunAnnualTaxes ==
    /\ Idle
    /\ filing_status = "single"
    /\ \E st \in {None, Some(5000)}, lt \in {None, Some(0), Some(40000)},
          rental_pct \in {0, 20}, estimated_payments \in {0, 5000},
          w2 \in AnnualW2s, stock_results \in AnnualStockResults,
          mortgage \in AnnualMortgages, total_interest \in InterestIncomes :
        LET cli == [year |-> current_year, st_gains |-> st, lt_gains |-> lt,
                    rental_pct |-> rental_pct, rental_income |-> 12000,
                    other_rental_income |-> 500, rental_start_month |-> 4,
                    rental_hoa |-> 1200, rental_insurance |-> 900,
                    rental_supplies |-> 75, rental_electricity |-> 450,
                    rental_telephone |-> 240,
                    estimated_payments |-> estimated_payments,
                    stock_tax_withheld |-> 0]
            interest == [payers |-> <<>>, total_interest |-> total_interest]
        IN  /\ op' = "run_annual_taxes"
            /\ args' = [cli |-> cli, w2 |-> w2,
                        stock_results |-> stock_results,
                        mortgage |-> mortgage, interest |-> interest]
            /\ ret' = run_annual_taxes(cli, w2, stock_results, mortgage,
                                       interest)
            /\ UNCHANGED calc

(***************************************************************************)
(* Mid-year projection (projection_engine.project_full_year and            *)
(* web_app.calculate_midyear).  Amounts of the pay stub, of the vesting    *)
(* events and of the planned sales are whole dollars; projected amounts    *)
(* are exact fractions, rounded to cents as round(x, 2) does.              *)
(***************************************************************************)
FED_SUPPLEMENTAL_RATE == <<22, 100>>

CA_SUPPLEMENTAL_RATE == <<1023, 10000>>

\* round(x, 2) of the fraction x, in cents (ties to the even cent)
round_cents(x) ==
    LET n == x[1] * 100
        q == n \div x[2]
        r == n - q * x[2]
    IN  IF 2 * r > x[2] THEN q + 1
        ELSE IF 2 * r < x[2] THEN q
        ELSE IF q % 2 = 0 THEN q ELSE q + 1

_year_fraction(pay_date, tax_year) ==
    LET year_start == datetime(tax_year, 1, 1)
        year_end == datetime(tax_year, 12, 31)
        total_days == days_between(year_end, year_start) + 1
        elapsed == days_between(pay_date, year_start) + 1
    IN  reduce(Max(1, Min(elapsed, total_days)), total_days)

\* The date of an event is text; its first four characters are the year.
_is_in_tax_year(event, tax_year) ==
    /\ "date" \in DOMAIN event
    /\ event.date.year = tax_year

event_price(event, estimated_stock_price) ==
    IF Get(event, "price", 0) # 0 THEN Get(event, "price", 0)
    ELSE estimated_stock_price

RECURSIVE _sum_future_rsu_income(_, _, _, _)
_sum_future_rsu_income(vesting_events, estimated_stock_price, tax_year, k) ==
    IF k > Len(vesting_events) THEN 0
    ELSE LET event == vesting_events[k]
             counted ==
                 /\ Get(event, "is_future", FALSE)
                 /\ _is_in_tax_year(event, tax_year)
                 /\ lower(Get(event, "plan_type", ""))
                        \in {"rest. stock", "rsu", "restricted stock"}
         IN  (IF counted
              THEN Get(event, "shares", 0)
                       * event_price(event, estimated_stock_price)
              ELSE 0)
             + _sum_future_rsu_income(vesting_events, estimated_stock_price,
                                      tax_year, k + 1)

\* The loop of _sum_future_espp_discount from event k on (a fraction).
RECURSIVE espp_discount_from(_, _, _, _)
espp_discount_from(vesting_events, estimated_stock_price, tax_year, k) ==
    IF k > Len(vesting_events) THEN <<0, 1>>
    ELSE LET event == vesting_events[k]
             counted ==
                 /\ Get(event, "is_future", FALSE)
                 /\ _is_in_tax_year(event, tax_year)
                 /\ lower(Get(event, "plan_type", "")) = "espp"
             shares == Get(event, "shares", 0)
             cost_basis_per_share == Get(event, "cost_basis_per_share", 0)
             price == event_price(event, estimated_stock_price)
         IN  plus(IF ~counted THEN <<0, 1>>
                  ELSE IF cost_basis_per_share > 0
                  THEN <<shares * (price - cost_basis_per_share), 1>>
                  ELSE reduce(shares * price * 15, 100),
                  espp_discount_from(vesting_events, estimated_stock_price,
                                     tax_year, k + 1))

_sum_future_espp_discount(vesting_events, estimated_stock_price, tax_year) ==
    LET discount == espp_discount_from(vesting_events, estimated_stock_price,
                                       tax_year, 1)
    IN  IF discount[1] < 0 THEN <<0, 1>> ELSE discount

\* The entry of stock_results that project_full_year makes of a planned sale
projected_sale(sale, tax_year) ==
    LET proceeds == Get(sale, "proceeds", 0)
        cost_basis == Get(sale, "cost_basis", 0)
        long_term == Get(sale, "is_long_term", FALSE)
    IN  [proceeds |-> proceeds,
         cost_basis |-> cost_basis,
         total_gain |-> proceeds - cost_basis,
         is_long_term |-> long_term,
         is_projection |-> TRUE,
         acquired_date |-> datetime(tax_year, 1, 1),
         sold_date |-> datetime(tax_year, 12, 31),
         shares |-> 0,
         stock_type |-> "PROJ",
         tax_type |-> IF long_term THEN "Long-term" ELSE "Short-term",
         wash_sale_adjustment |-> 0]

\* project_full_year from the projections of the income on: frac is the year
\* fraction, the other three the future RSU income, the ESPP discount and
\* the entries of the planned sales.
projected_inputs(paystub_data, user_inputs, frac, future_rsu_income, future_espp, stock_results) ==
    LET ytd_gross == Get(paystub_data, "ytd_gross_wages", 0)
        ytd_rsu == Get(paystub_data, "ytd_rsu_income", 0)
        ytd_base == ytd_gross - ytd_rsu
        projected_base == times(<<ytd_base, 1>>, <<frac[2], frac[1]>>)
        projected_rsu == ytd_rsu + future_rsu_income
        projected_w2_wages ==
            plus(plus(projected_base, <<projected_rsu, 1>>), future_espp)
        ytd_fed == Get(paystub_data, "ytd_fed_withheld", 0)
        ytd_state == Get(paystub_data, "ytd_state_withheld", 0)
        est_ytd_rsu_fed_withheld == times(<<ytd_rsu, 1>>, FED_SUPPLEMENTAL_RATE)
        est_ytd_base_fed_withheld ==
            minus(<<ytd_fed, 1>>, est_ytd_rsu_fed_withheld)
        est_ytd_rsu_state_withheld ==
            times(<<ytd_rsu, 1>>, CA_SUPPLEMENTAL_RATE)
        est_ytd_base_state_withheld ==
            minus(<<ytd_state, 1>>, est_ytd_rsu_state_withheld)
        projected_fed_withheld ==
            plus(plus(times(est_ytd_base_fed_withheld, <<frac[2], frac[1]>>),
                      est_ytd_rsu_fed_withheld),
                 plus(times(<<future_rsu_income, 1>>, FED_SUPPLEMENTAL_RATE),
                      times(future_espp, FED_SUPPLEMENTAL_RATE)))
        projected_state_withheld ==
            plus(plus(times(est_ytd_base_state_withheld, <<frac[2], frac[1]>>),
                      est_ytd_rsu_state_withheld),
                 plus(times(<<future_rsu_income, 1>>, CA_SUPPLEMENTAL_RATE),
                      times(future_espp, CA_SUPPLEMENTAL_RATE)))
    IN  [w2_wages |-> round_cents(projected_w2_wages),
         fed_withheld |-> round_cents(projected_fed_withheld),
         state_wages |-> round_cents(projected_w2_wages),
         state_tax_withheld |-> round_cents(projected_state_withheld),
         interest_income |->
             Cents(Get(user_inputs, "estimated_interest", 0)),
         mortgage_interest |-> Cents(Get(user_inputs, "mortgage_interest", 0)),
         property_taxes |-> Cents(Get(user_inputs, "property_taxes", 0)),
         mortgage_insurance |-> 0,
         stock_results |-> stock_results]

\* The projected inputs (in cents) of project_full_year; the assumptions it
\* returns with them do not enter the liabilities.
project_full_year(paystub_data, vesting_events, user_inputs) ==
    projected_inputs(paystub_data, user_inputs,
        _year_fraction(paystub_data.pay_date, user_inputs.tax_year),
        _sum_future_rsu_income(vesting_events,
            Get(user_inputs, "estimated_stock_price", 0),
            user_inputs.tax_year, 1),
        _sum_future_espp_discount(vesting_events,
            Get(user_inputs, "estimated_stock_price", 0),
            user_inputs.tax_year),
        [k \in 1..Len(Get(user_inputs, "planned_sales", <<>>)) |->
            projected_sale(user_inputs.planned_sales[k],
                           user_inputs.tax_year)])

\* sum(r.get('total_gain', 0) for r in stock_results if r's term is long)
RECURSIVE total_gain_of_term(_, _, _)
total_gain_of_term(stock_results, long, k) ==
    IF k > Len(stock_results) THEN 0
    ELSE (IF Get(stock_results[k], "is_long_term", FALSE) = long
          THEN Get(stock_results[k], "total_gain", 0) ELSE 0)
         + total_gain_of_term(stock_results, long, k + 1)

\* Whole dollars of an amount in cents
whole(cents) == cents \div 100

\* calculate_midyear after the projection: the calculator is
\* TaxCalculator(tax_year, filing_status), inputs the projected inputs.
midyear_liabilities(payload, inputs, st_gains, lt_gains) ==
    LET estimated_agi == whole(inputs.w2_wages) + whole(inputs.interest_income)
                             + st_gains + lt_gains
        itemized_result ==
            IF \/ inputs.mortgage_interest > 0
               \/ inputs.property_taxes > 0
               \/ inputs.state_tax_withheld > 0
            THEN Some(dollars_of_itemized(calculate_itemized_deductions(
                     [current_year |-> current_year,
                      filing_status |-> filing_status],
                     whole(inputs.mortgage_interest),
                     whole(inputs.property_taxes),
                     whole(inputs.state_tax_withheld),
                     whole(inputs.mortgage_insurance), payload.rental_pct,
                     estimated_agi)))
            ELSE None
        ca_itemized ==
            IF inputs.mortgage_interest > 0 \/ inputs.property_taxes > 0
            THEN Some(whole((inputs.mortgage_interest
                                 * (100 - payload.rental_pct)) \div 100
                            + (inputs.property_taxes
                                   * (100 - payload.rental_pct)) \div 100))
            ELSE None
    IN  annual_reports(inputs.stock_results, st_gains, lt_gains,
            calculate_total_tax_liability(whole(inputs.w2_wages),
                whole(inputs.fed_withheld), inputs.stock_results, None,
                payload.estimated_payments, 0, whole(inputs.interest_income),
                None, itemized_result),
            IF inputs.state_wages > 0
            THEN Some(calculate_ca_state_tax(whole(inputs.state_wages),
                     whole(inputs.interest_income), st_gains, lt_gains, 0,
                     ca_itemized, whole(inputs.state_tax_withheld), 0))
            ELSE None)

calculate_midyear(payload) ==
    midyear_liabilities(payload,
        project_full_year(payload.paystub, payload.vesting_events, payload),
        total_gain_of_term(
            project_full_year(payload.paystub, payload.vesting_events,
                              payload).stock_results, FALSE, 1),
        total_gain_of_term(
            project_full_year(payload.paystub, payload.vesting_events,
                              payload).stock_results, TRUE, 1))

Paystubs ==
    {[ytd_gross_wages |-> 50000, ytd_rsu_income |-> 20000,
      ytd_fed_withheld |-> 30000, ytd_state_withheld |-> 10000,
      pay_date |-> datetime(2025, 5, 26)],
     [ytd_gross_wages |-> 60000, ytd_rsu_income |-> 0,
      ytd_fed_withheld |-> 9000, ytd_state_withheld |-> 3000,
      pay_date |-> datetime(2025, 3, 14)],
     [ytd_gross_wages |-> 0, ytd_rsu_income |-> 0, ytd_fed_withheld |-> 0,
      ytd_state_withheld |-> 0, pay_date |-> datetime(2025, 12, 31)]}

VestingEventLists ==
    {<<>>,
     <<[date |-> datetime(2025, 9, 5), shares |-> 100,
        plan_type |-> "Rest. Stock", is_future |-> TRUE]>>,
     <<[date |-> datetime(2025, 8, 31), shares |-> 200, plan_type |-> "ESPP",
        is_future |-> TRUE, cost_basis_per_share |-> 250],
       [date |-> datetime(2025, 3, 5), shares |-> 100,
        plan_type |-> "Rest. Stock", is_future |-> FALSE, price |-> 280]>>,
     <<[date |-> datetime(2026, 3, 5), shares |-> 100, plan_type |-> "RSU",
        is_future |-> TRUE],
       [date |-> datetime(2025, 11, 30), shares |-> 2000,
        plan_type |-> "ESPP", is_future |-> TRUE]>>}

PlannedSales ==
    {[proceeds |-> 50000, cost_basis |-> 20000, is_long_term |-> TRUE],
     [proceeds |-> 30000, cost_basis |-> 21000, is_long_term |-> FALSE],
     [proceeds |-> 10000, cost_basis |-> 15000]}

CallCalculateMidyear ==
    /\ Idle
    /\ \E paystub \in Paystubs, vesting_events \in VestingEventLists,
          planned_sales \in SeqsUpTo(PlannedSales, MaxStock),
          mortgage_interest \in {0, 8000}, rental_pct \in {0, 20} :
        LET payload == [filing_status |-> filing_status,
                        tax_year |-> current_year,
                        estimated_payments |-> 0, rental_pct |-> rental_pct,
                        paystub |-> paystub,
                        vesting_events |-> vesting_events,
                        estimated_stock_price |-> 300,
                        planned_sales |-> planned_sales,
                        estimated_interest |-> 3000,
                        mortgage_interest |-> mortgage_interest,
                        property_taxes |-> 0]
        IN  /\ op' = "calculate_midyear"
            /\ args' = payload
            /\ ret' = calculate_midyear(payload)
            /\ UNCHANGED calc

NextAnnual ==
    \/ CallRentalIncome
    \/ CallRunAnnualTaxes
    \/ CallCalculateMidyear
    \/ Return

SpecAnnual == Init /\ [][NextAnnual]_vars

(***************************************************************************)
(* Reference definitions of the properties                                 *)
(***************************************************************************)
\* The part of an income x that lies in bracket i of schedule B:
\* max(0, min(x, next_threshold_i) - threshold_i), the top bracket unbounded.
BracketAmount(B, i, x) ==
    Max(0, (IF i < Len(B) THEN Min(x, B[i + 1][1]) ELSE x) - B[i][1])

\* P(x): the sum over the brackets of rate_i * BracketAmount(B, i, x).
RECURSIVE ClosedFormTaxFrom(_, _, _)
ClosedFormTaxFrom(B, x, i) ==
    IF i > Len(B) THEN 0
    ELSE B[i][2] * BracketAmount(B, i, x) + ClosedFormTaxFrom(B, x, i + 1)

ClosedFormTax(B, x) == ClosedFormTaxFrom(B, x, 1)

TopRate(B) == B[Len(B)][2]

RECURSIVE SumSeq(_)
SumSeq(q) == IF q = <<>> THEN 0 ELSE Head(q) + SumSeq(Tail(q))

PositiveIncome(d) == d.income_in_bracket > 0

PositiveGains(d) == d.gains_in_bracket > 0

\* The detail list of the brackets of B, in ascending order, that take a
\* positive part of x.
ExpectedOrdinaryDetails(B, x) ==
    SelectSeq([i \in 1..Len(B) |->
                  [bracket_floor |-> B[i][1], rate |-> B[i][2],
                   income_in_bracket |-> BracketAmount(B, i, x),
                   tax_in_bracket |-> BracketAmount(B, i, x) * B[i][2]]],
              PositiveIncome)

\* The detail list of the brackets of B, in ascending order, that take a
\* positive part of the interval (x, x + y].
ExpectedStackedDetails(B, x, y) ==
    SelectSeq([i \in 1..Len(B) |->
                  LET g == BracketAmount(B, i, x + y) - BracketAmount(B, i, x)
                  IN  [bracket_floor |-> B[i][1], rate |-> B[i][2],
                       gains_in_bracket |-> g,
                       tax_in_bracket |-> g * B[i][2]]],
              PositiveGains)

(***************************************************************************)
(* Properties of the bracket engine                                        *)
(***************************************************************************)
\* C1: calculate_progressive_ordinary_tax(x) returns (0, []) for x <= 0 and
\* otherwise the sum over the ordinary brackets of
\* rate_i * max(0, min(x, next_threshold_i) - threshold_i), with a detail list
\* that holds, in ascending order, exactly the brackets with a positive
\* amount, the amounts summing to x; single 2025, x = 100,000 gives 16,914.00.
C1_ProgressiveOrdinaryTax ==
    op = "calculate_progressive_ordinary_tax" =>
        LET x == args.taxable_ordinary_income
        IN  /\ x <= 0 => ret = [tax |-> 0, details |-> <<>>]
            /\ x > 0 =>
                /\ ret.tax = ClosedFormTax(tax_brackets, x)
                /\ ret.details = ExpectedOrdinaryDetails(tax_brackets, x)
                /\ SumSeq([k \in 1..Len(ret.details) |->
                              ret.details[k].income_in_bracket]) = x
            /\ (filing_status = "single" /\ current_year = 2025 /\ x = 100000)
                   => ret.tax = 16914000

C1_Witness ==
    /\ op = "calculate_progressive_ordinary_tax"
    /\ filing_status = "single"
    /\ args.taxable_ordinary_income = 100000
    /\ ret.tax = 16914000
    /\ Len(ret.details) = 3

\* C2: for x >= 0 and y > 0, calculate_progressive_ltcg_tax(x, y) is
\* P(x + y) - P(x) for the plain progressive application P of the long-term
\* gain schedule; the detail holds exactly the brackets that take a positive
\* part of (x, x + y], none whose upper edge is <= x, and its gains sum to y;
\* single 2025, 100,000 ordinary plus 50,000 gain is 7,500.00, all at 15%.
C2_StackedLtcgTax ==
    op = "calculate_progressive_ltcg_tax" =>
        LET x == args.taxable_ordinary_income
            y == args.long_term_gains
            B == capital_gains_brackets
        IN  (x >= 0 /\ y > 0) =>
                /\ ret.tax = ClosedFormTax(B, x + y) - ClosedFormTax(B, x)
                /\ ret.details = ExpectedStackedDetails(B, x, y)
                /\ \A k \in 1..Len(ret.details) :
                       \A i \in 1..(Len(B) - 1) :
                           B[i + 1][1] <= x
                               => ret.details[k].bracket_floor # B[i][1]
                /\ SumSeq([k \in 1..Len(ret.details) |->
                              ret.details[k].gains_in_bracket]) = y
                /\ (filing_status = "single" /\ current_year = 2025
                        /\ x = 100000 /\ y = 50000)
                       => /\ ret.tax = 7500000
                          /\ ret.details =
                                 <<[bracket_floor |-> 48350, rate |-> 150,
                                    gains_in_bracket |-> 50000,
                                    tax_in_bracket |-> 7500000]>>

C2_Witness ==
    /\ op = "calculate_progressive_ltcg_tax"
    /\ filing_status = "single"
    /\ args.taxable_ordinary_income = 100000
    /\ args.long_term_gains = 50000
    /\ ret.tax = 7500000

\* C9: for x >= 0 the stacked computation with zero gains returns (0, []),
\* and for every y the stacked computation on top of zero ordinary income
\* returns the tax and the per-bracket amounts of the plain progressive
\* application of the long-term-gain schedule to y.
C9_StackingInvariant ==
    op = "calculate_progressive_ltcg_tax" =>
        LET x == args.taxable_ordinary_income
            y == args.long_term_gains
            plain == apply_progressive(y, capital_gains_brackets)
        IN  /\ (x >= 0 /\ y = 0) => ret = [tax |-> 0, details |-> <<>>]
            /\ x = 0 =>
                /\ ret.tax = plain.tax
                /\ Len(ret.details) = Len(plain.details)
                /\ \A k \in 1..Len(ret.details) :
                       /\ ret.details[k].bracket_floor
                              = plain.details[k].bracket_floor
                       /\ ret.details[k].rate = plain.details[k].rate
                       /\ ret.details[k].gains_in_bracket
                              = plain.details[k].income_in_bracket
                       /\ ret.details[k].tax_in_bracket
                              = plain.details[k].tax_in_bracket

\* gains on top of zero ordinary income that reach the top bracket
C9_Witness ==
    /\ op = "calculate_progressive_ltcg_tax"
    /\ args.taxable_ordinary_income = 0
    /\ args.long_term_gains
           > capital_gains_brackets[Len(capital_gains_brackets)][1]
    /\ Len(ret.details) = Len(capital_gains_brackets)
    /\ ret.tax > 0

\* C10 as stated: for each filing status the federal ordinary and the
\* California progressive tax satisfy, for all incomes 0 < a <= b,
\* 0 <= tax(b) - tax(a) <= (b - a) * top marginal rate of the schedule.
C10_NoCliffTopRate ==
    /\ op = "calculate_progressive_ordinary_tax" =>
           \A a \in OrdinaryIncomes :
               LET b == args.taxable_ordinary_income
                   d == ret.tax - calculate_progressive_ordinary_tax(a).tax
               IN  (0 < a /\ a <= b) =>
                       (0 <= d /\ d <= (b - a) * TopRate(tax_brackets))
    /\ op = "calculate_ca_progressive_tax" =>
           \A a \in CaIncomes :
               LET b == args.taxable_income
                   d == ret.tax - calculate_ca_progressive_tax(a).tax
               IN  (0 < a /\ a <= b) =>
                       (0 <= d /\ d <= (b - a) * TopRate(ca_tax_brackets))

\* C10 as amended: the same for the federal ordinary tax; for the California
\* tax the bound is (b - a) * (top marginal rate of the schedule + the Mental
\* Health Services rate that calculate_ca_progressive_tax adds over 1,000,000).
C10_NoCliff ==
    /\ op = "calculate_progressive_ordinary_tax" =>
           \A a \in OrdinaryIncomes :
               LET b == args.taxable_ordinary_income
                   d == ret.tax - calculate_progressive_ordinary_tax(a).tax
               IN  (0 < a /\ a <= b) =>
                       (0 <= d /\ d <= (b - a) * TopRate(tax_brackets))
    /\ op = "calculate_ca_progressive_tax" =>
           \A a \in CaIncomes :
               LET b == args.taxable_income
                   d == ret.tax - calculate_ca_progressive_tax(a).tax
               IN  (0 < a /\ a <= b) =>
                       (0 <= d /\ d <= (b - a) * (TopRate(ca_tax_brackets)
                                                  + ca_mental_health_rate))

\* a California income b over the Mental Health Services threshold and the
\* top bracket threshold whose tax exceeds the tax of a smaller such income a
\* by (b - a) * (top marginal rate + Mental Health Services rate)
C10_Witness ==
    /\ op = "calculate_ca_progressive_tax"
    /\ \E a \in CaIncomes :
           /\ a > ca_mental_health_threshold
           /\ a > ca_tax_brackets[Len(ca_tax_brackets)][1]
           /\ a < args.taxable_income
           /\ ret.tax - calculate_ca_progressive_tax(a).tax
                  = (args.taxable_income - a)
                        * (TopRate(ca_tax_brackets) + ca_mental_health_rate)

(***************************************************************************)
(* Properties of the liability aggregator                                  *)
(***************************************************************************)
\* The net rental income of a call: that of rental_result, 0 without one.
ArgNetRental == IF args.rental_result = None THEN 0
                ELSE Value(args.rental_result).net_rental_income

ArgOrdinaryPortions ==
    SumSeq([k \in 1..Len(args.stock_results) |->
               args.stock_results[k].ordinary_income_portion])

ArgLongTermPortions ==
    SumSeq([k \in 1..Len(args.stock_results) |->
               IF args.stock_results[k].is_long_term
               THEN args.stock_results[k].capital_gain_portion ELSE 0])

ArgShortTermPortions ==
    SumSeq([k \in 1..Len(args.stock_results) |->
               IF args.stock_results[k].is_long_term
               THEN 0 ELSE args.stock_results[k].capital_gain_portion])

\* C3: calculate_total_tax_liability adds every stock result's
\* ordinary_income_portion to the stock ordinary income and its
\* capital_gain_portion to the long-term gains when is_long_term and to the
\* short-term gains otherwise; total_ordinary_income = wages + stock ordinary
\* income + short-term gains + interest + net rental income (negative
\* allowed) and AGI = total_ordinary_income + long-term gains.
C3_IncomeAggregation ==
    op = "calculate_total_tax_liability" =>
        /\ ret.stock_ordinary_income = ArgOrdinaryPortions
        /\ ret.stock_long_term_gains = ArgLongTermPortions
        /\ ret.stock_short_term_gains = ArgShortTermPortions
        /\ ret.net_rental_income = ArgNetRental
        /\ ret.total_ordinary_income =
               args.w2_wages + ArgOrdinaryPortions + ArgShortTermPortions
                   + args.interest_income + ArgNetRental
        /\ ret.total_long_term_gains = ArgLongTermPortions
        /\ ret.agi = ret.total_ordinary_income + ArgLongTermPortions

\* a long-term and a short-term result with ordinary income, a rental loss
C3_Witness ==
    /\ op = "calculate_total_tax_liability"
    /\ Len(args.stock_results) = 2
    /\ args.stock_results[1].is_long_term
    /\ ~args.stock_results[2].is_long_term
    /\ args.stock_results[2].ordinary_income_portion > 0
    /\ ArgNetRental < 0
    /\ args.interest_income > 0
    /\ ret.agi = args.w2_wages + 60000 + 4000 + 9000 + 3000 - 30000

\* The itemized amount a call supplies: the total of itemized_result, else
\* deduction_amount.
ArgItemized ==
    IF args.itemized_result # None
    THEN Some(Value(args.itemized_result).total_itemized)
    ELSE args.deduction_amount

\* C4 as stated: whatever combination of itemized_result and deduction_amount
\* is supplied, the deduction applied is the itemized amount when it is
\* strictly greater than the standard deduction and the standard deduction
\* otherwise, and the label is 'Standard (exceeds itemized)' exactly when an
\* itemized amount was supplied but did not exceed the standard deduction.
C4_DeductionChoiceAnySupplied ==
    op = "calculate_total_tax_liability" =>
        LET wins == /\ ArgItemized # None
                    /\ Value(ArgItemized) > standard_deduction
            loses == /\ ArgItemized # None
                     /\ ~(Value(ArgItemized) > standard_deduction)
        IN  /\ ret.deduction_amount =
                   IF wins THEN Value(ArgItemized) ELSE standard_deduction
            /\ (ret.deduction_type = "Standard (exceeds itemized)") <=> loses

\* C4 as amended: with an itemized_result the deduction is its total when
\* that is strictly greater than the standard deduction (label 'Itemized')
\* and the standard deduction otherwise (label 'Standard (exceeds
\* itemized)'), deduction_amount being ignored; with a deduction_amount only,
\* the deduction is that amount as given (label 'Itemized'), not compared
\* with the standard deduction; with neither it is the standard deduction
\* (label 'Standard').
C4_DeductionChoice ==
    op = "calculate_total_tax_liability" =>
        LET ir == args.itemized_result
            da == args.deduction_amount
            wins == /\ ir # None
                    /\ Value(ir).total_itemized > standard_deduction
            loses == /\ ir # None
                     /\ ~(Value(ir).total_itemized > standard_deduction)
        IN  /\ wins => /\ ret.deduction_amount = Value(ir).total_itemized
                       /\ ret.deduction_type = "Itemized"
            /\ loses => /\ ret.deduction_amount = standard_deduction
                        /\ ret.deduction_type = "Standard (exceeds itemized)"
            /\ (ir = None /\ da # None) =>
                   /\ ret.deduction_amount = Value(da)
                   /\ ret.deduction_type = "Itemized"
            /\ (ir = None /\ da = None) =>
                   /\ ret.deduction_amount = standard_deduction
                   /\ ret.deduction_type = "Standard"
            /\ (ret.deduction_type = "Standard (exceeds itemized)") <=> loses

\* a deduction_amount below the standard deduction, supplied alone, is applied
C4_Witness ==
    /\ op = "calculate_total_tax_liability"
    /\ args.itemized_result = None
    /\ args.deduction_amount # None
    /\ Value(args.deduction_amount) < standard_deduction
    /\ ret.deduction_amount = Value(args.deduction_amount)
    /\ ret.deduction_type = "Itemized"

\* C5: taxable_ordinary_income = max(0, total_ordinary_income - deduction)
\* and taxable_ltcg = max(0, long_term_gains - max(0, deduction -
\* total_ordinary_income)): only the part of the deduction above the ordinary
\* income reduces the long-term gains; both are >= 0, and they are the
\* amounts the two bracket computations are run on.
C5_DeductionOrder ==
    op = "calculate_total_tax_liability" =>
        LET toi == ret.total_ordinary_income
            ltg == ret.total_long_term_gains
            ded == ret.deduction_amount
        IN  /\ ret.taxable_ordinary_income = Max(0, toi - ded)
            /\ ret.taxable_ltcg = Max(0, ltg - Max(0, ded - toi))
            /\ ded <= toi => ret.taxable_ltcg = Max(0, ltg)
            /\ ret.taxable_ordinary_income >= 0
            /\ ret.taxable_ltcg >= 0
            /\ ret.ordinary_tax =
                   ClosedFormTax(tax_brackets, ret.taxable_ordinary_income)
            /\ ret.taxable_ltcg > 0 =>
                   ret.ltcg_tax =
                       ClosedFormTax(capital_gains_brackets,
                           ret.taxable_ordinary_income + ret.taxable_ltcg)
                       - ClosedFormTax(capital_gains_brackets,
                             ret.taxable_ordinary_income)

\* a deduction larger than the ordinary income whose excess takes a part of
\* the long-term gains
C5_Witness ==
    /\ op = "calculate_total_tax_liability"
    /\ ret.total_ordinary_income > 0
    /\ ret.deduction_amount > ret.total_ordinary_income
    /\ ret.taxable_ordinary_income = 0
    /\ ret.taxable_ltcg > 0
    /\ ret.taxable_ltcg = ret.total_long_term_gains
           - (ret.deduction_amount - ret.total_ordinary_income)

\* The surtax threshold of each filing status.
NiitThresholdOf(status) ==
    IF status = "mfj" THEN 250000 ELSE IF status = "mfs" THEN 125000 ELSE 200000

\* C6: the surtax of calculate_total_tax_liability is 3.8% of
\* min(max(0, AGI - threshold), net investment income), the threshold being
\* 200,000 single/hoh, 250,000 mfj, 125,000 mfs and net investment income =
\* long-term gains + short-term gains + interest + max(0, net rental income);
\* AGI 300,000 with net investment income 50,000, single, gives 1,900.00.
C6_InvestmentIncomeSurtax ==
    /\ op = "calculate_total_tax_liability" =>
           LET nii == ArgLongTermPortions + ArgShortTermPortions
                          + args.interest_income + Max(0, ArgNetRental)
           IN  /\ ret.net_investment_income = nii
               /\ ret.niit =
                      38 * Min(Max(0, ret.agi - NiitThresholdOf(filing_status)),
                               nii)
    /\ op = "calculate_niit" =>
           /\ ret = 38 * Min(Max(0, args.agi - NiitThresholdOf(filing_status)),
                             args.net_investment_income)
           /\ (filing_status = "single" /\ args.agi = 300000
                   /\ args.net_investment_income = 50000) => ret = 1900000

\* an AGI over the threshold by less than the net investment income, which
\* includes a rental profit
C6_Witness ==
    /\ op = "calculate_total_tax_liability"
    /\ ArgNetRental > 0
    /\ ret.agi > niit_threshold
    /\ ret.agi - niit_threshold < ret.net_investment_income
    /\ ret.niit = 38 * (ret.agi - niit_threshold)

\* C7: net_tax_due - refund = (ordinary_tax + ltcg_tax + niit) -
\* (federal_tax_withheld + estimated_payments + stock_tax_withheld), both are
\* >= 0 and at most one is positive; the same for ca_net_tax_due, ca_refund,
\* ca_tax and state_tax_withheld in calculate_ca_state_tax.
C7_DueOrRefund ==
    /\ op = "calculate_total_tax_liability" =>
           /\ ret.total_tax_liability
                  = ret.ordinary_tax + ret.ltcg_tax + ret.niit
           /\ ret.net_tax_due - ret.refund =
                  (ret.ordinary_tax + ret.ltcg_tax + ret.niit)
                      - Mills(args.federal_tax_withheld
                                  + args.estimated_payments
                                  + args.stock_tax_withheld)
           /\ ret.net_tax_due >= 0
           /\ ret.refund >= 0
           /\ ~(ret.net_tax_due > 0 /\ ret.refund > 0)
    /\ op = "calculate_ca_state_tax" =>
           /\ ret.ca_net_tax_due - ret.ca_refund =
                  ret.ca_tax - Mills(args.state_tax_withheld)
           /\ ret.ca_net_tax_due >= 0
           /\ ret.ca_refund >= 0
           /\ ~(ret.ca_net_tax_due > 0 /\ ret.ca_refund > 0)

\* payments of all three kinds that exceed a positive liability: a refund
C7_Witness ==
    /\ op = "calculate_total_tax_liability"
    /\ args.federal_tax_withheld > 0
    /\ args.estimated_payments > 0
    /\ args.stock_tax_withheld > 0
    /\ ret.total_tax_liability > 0
    /\ ret.refund > 0
    /\ ret.net_tax_due = 0

(***************************************************************************)
(* C8: every brokerage record built by load_1099b_data or by a strategy of *)
(* parse_1099b, a non-covered box with a re-estimated basis included, has  *)
(* total_gain = capital_gain_portion = raw_gain + wash_sale_disallowed,    *)
(* and in the totals of get_1099b_summary taxable_gain = raw_gain +        *)
(* wash_sale for the short term and for the long term.                     *)
(***************************************************************************)
Reconciled(r) ==
    /\ r.total_gain = r.capital_gain_portion
    /\ r.total_gain = r.raw_gain + r.wash_sale_disallowed

IsScenario4 ==
    /\ op = "verify_espp_classification"
    /\ args.purchase_date = datetime(2024, 2, 29)
    /\ args.sold_date = datetime(2025, 10, 23)

ScheduledOffer(p) ==
    IF p.month \in {1, 2} THEN datetime(p.year - 1, 8, 1)
    ELSE IF p.month \in 3..8 THEN datetime(p.year, 2, 1)
    ELSE datetime(p.year, 8, 1)

C12_QualifyingDisposition ==
    /\ op = "verify_espp_classification" =>
        /\ ret.offer_date = ScheduledOffer(args.purchase_date)
        /\ ret.is_qualifying <=>
               /\ toordinal(args.sold_date) - toordinal(ScheduledOffer(args.purchase_date)) >= 730
               /\ toordinal(args.sold_date) - toordinal(args.purchase_date) >= 365
    /\ op = "is_qualifying_espp_disposition" =>
        (ret <=> /\ toordinal(args.sold_date) - toordinal(args.offer_date) >= 730
                 /\ toordinal(args.sold_date) - toordinal(args.purchase_date) >= 365)

\* A sale exactly 730 days after the offer and exactly 365 days after the
\* purchase, which qualifies
C12_Witness ==
    /\ op = "is_qualifying_espp_disposition"
    /\ days_between(args.sold_date, args.offer_date) = 730
    /\ days_between(args.sold_date, args.purchase_date) = 365
    /\ ret

(***************************************************************************)
(* C13: for every qualifying ESPP disposition the ordinary-income portion  *)
(* is min(discount at the offer date, total gain), the discount at the     *)
(* offer date being 15% of the offer-date fair market value times the      *)
(* shares and the total gain shares * sale price - shares * 0.85 *         *)
(* min(offer-date FMV, purchase-date FMV); the rest of the gain is         *)
(* long-term capital gain.                                                 *)
(***************************************************************************)
ArgOfferFmv == get_stock_price(args.history, get_tesla_offer_date(args.row.Date_Acquired))

ArgPurchaseFmv == get_stock_price(args.history, args.row.Date_Acquired)

\* shares * sale price - shares * 0.85 * min(offer FMV, purchase FMV), cents
ArgEsppGain ==
    args.row.Sellable_Qty * args.sold_price * 100
        - args.row.Sellable_Qty * 85 * Min(ArgOfferFmv, ArgPurchaseFmv)

C13_QualifyingOrdinaryPortion ==
    (op = "calculate_espp_taxes" /\ ret # None /\ Value(ret).is_qualifying) =>
        LET r == Value(ret)
            discount_at_offer == 15 * ArgOfferFmv * args.row.Sellable_Qty
        IN  /\ r.total_gain = ArgEsppGain
            /\ r.ordinary_income_portion = Min(discount_at_offer, ArgEsppGain)
            /\ r.capital_gain_portion = ArgEsppGain - r.ordinary_income_portion
            /\ r.is_long_term

\* A qualifying disposition of 10 shares, offer-date FMV 200, purchase-date
\* FMV 100, sold at 300: the ordinary portion is 150.00, 15% of the lower
\* price, where 15% of the offer-date FMV is 300.00
C13_Witness ==
    /\ op = "calculate_espp_taxes"
    /\ ret # None
    /\ Value(ret).is_qualifying
    /\ ArgOfferFmv = 200 /\ ArgPurchaseFmv = 100
    /\ args.sold_price = 300 /\ args.row.Sellable_Qty = 10
    /\ Value(ret).total_gain = 215000
    /\ Value(ret).ordinary_income_portion = 15000
    /\ Value(ret).capital_gain_portion = 200000

(***************************************************************************)
(* C14: for every disqualifying ESPP disposition the ordinary-income       *)
(* portion is (purchase-date FMV - purchase price) * shares whatever the   *)
(* total gain, the capital remainder is the total gain minus that portion  *)
(* (negative when the portion exceeds the gain) and is long-term iff the   *)
(* purchase-to-sale period exceeds 365 days; ordinary portion + capital    *)
(* portion = total gain for every ESPP result.                             *)
(***************************************************************************)
C14_DisqualifyingRemainder ==
    (op = "calculate_espp_taxes" /\ ret # None) =>
        LET r == Value(ret)
            purchase_price == 85 * Min(ArgOfferFmv, ArgPurchaseFmv)
        IN  /\ r.ordinary_income_portion + r.capital_gain_portion = r.total_gain
            /\ ~r.is_qualifying =>
                /\ r.ordinary_income_portion = (ArgPurchaseFmv * 100 - purchase_price) * args.row.Sellable_Qty
                /\ r.capital_gain_portion = r.total_gain - r.ordinary_income_portion
                /\ r.is_long_term <=> toordinal(args.sold_date) - toordinal(args.row.Date_Acquired) > 365

\* A disqualifying disposition of 10 shares, offer-date FMV 100,
\* purchase-date FMV 200, sold at 150: gain 650.00, ordinary portion
\* 1,150.00, capital portion 0 where the remainder is -500.00
C14_Witness ==
    /\ op = "calculate_espp_taxes"
    /\ ret # None
    /\ ~Value(ret).is_qualifying
    /\ ArgOfferFmv = 100 /\ ArgPurchaseFmv = 200
    /\ args.sold_price = 150 /\ args.row.Sellable_Qty = 10
    /\ Value(ret).total_gain = 65000
    /\ Value(ret).ordinary_income_portion = 115000
    /\ Value(ret).capital_gain_portion = 0

(***************************************************************************)
(* C15: for every RSU lot the gain is shares * sale price - shares *       *)
(* acquisition-date price, the ordinary-income portion is 0, the capital   *)
(* portion is the whole gain (negative for a loss), and the lot is         *)
(* long-term iff it was sold strictly more than 365 days after it was      *)
(* acquired.                                                               *)
(***************************************************************************)
C15_RsuLot ==
    (op = "calculate_rsu_taxes" /\ ret # None) =>
        LET r == Value(ret)
            shares == args.row.Sellable_Qty
            gain == shares * args.sold_price * 100 - shares * args.history[args.row.Date_Acquired] * 100
        IN  /\ r.total_gain = gain
            /\ r.ordinary_income_portion = 0
            /\ r.capital_gain_portion = gain
            /\ r.is_long_term <=> toordinal(args.sold_date) - toordinal(args.row.Date_Acquired) > 365

\* A lot sold at a loss exactly 365 days after it was acquired: short-term
C15_Witness ==
    /\ op = "calculate_rsu_taxes"
    /\ ret # None
    /\ days_between(args.sold_date, args.row.Date_Acquired) = 365
    /\ Value(ret).capital_gain_portion < 0
    /\ ~Value(ret).is_long_term

(***************************************************************************)
(* C16: in calculate_all_taxes a price lookup that cannot be resolved, for *)
(* any price a row needs (acquisition price, offer-date and purchase-date  *)
(* price, and the sale price when the row gives none), leaves exactly that *)
(* row out of the returned list; the other rows are processed in input     *)
(* order, and no row with an unresolved price contributes a gain.          *)
(***************************************************************************)
ArgSoldDate == IF args.sold_date = None THEN args.now ELSE Value(args.sold_date)

\* The prices the row needs are all found
PricesResolved(row) ==
    /\ row.Stock_Type = "RSU" => get_stock_price(args.history, row.Date_Acquired) # 0
    /\ row.Stock_Type = "ESPP" =>
        /\ get_stock_price(args.history, get_tesla_offer_date(row.Date_Acquired)) # 0
        /\ get_stock_price(args.history, row.Date_Acquired) # 0
    /\ (row.Date_Sold # None /\ row.Sale_Price = 0) =>
        get_stock_price(args.history, Value(row.Date_Sold)) # 0
    /\ row.Date_Sold = None =>
        \/ get_stock_price(args.history, ArgSoldDate) # 0
        \/ get_stock_price(args.history, args.now) # 0

\* The row is one that calculate_all_taxes is asked to process
Processed(row) ==
    /\ row.Stock_Type \in {"RSU", "ESPP"}
    /\ ~(args.sold_only /\ row.Date_Sold = None)

ExpectedRow(row) == Processed(row) /\ PricesResolved(row)

C16_UnresolvedPriceSkipsRow ==
    op = "calculate_all_taxes" =>
        LET expected == SelectSeq(args.rows, ExpectedRow)
        IN  /\ Len(ret) = Len(expected)
            /\ \A k \in 1..Len(ret) : k <= Len(expected) => ret[k].grant_number = expected[k].Grant_Number

\* A sold RSU row without a sale price, whose sale-date price is not found:
\* the row is returned with a sale price of 0 and a loss of 1,000.00
C16_Witness ==
    /\ op = "calculate_all_taxes"
    /\ Len(args.rows) = 1
    /\ args.rows[1].Grant_Number = "g2"
    /\ datetime(2025, 10, 23) \notin DOMAIN args.history
    /\ Len(ret) = 1
    /\ ret[1].sold_price = 0
    /\ ret[1].total_gain = -100000

(***************************************************************************)
(* The inputs of a liability                                               *)
(***************************************************************************)
\* A call fails when it raises an exception instead of returning.
Failed == "raises" \in DOMAIN ret /\ ret.raises # None

\* The scanned forms of a call of build_tax_inputs hold no W-2.
NoW2Scanned ==
    \A k \in 1..Len(args.scanned_forms) : args.scanned_forms[k].form_type # "W-2"

\* A required top-level field is absent from the inputs of the call.
RequiredFieldAbsent ==
    \/ op = "TaxCalculator" /\ (args.tax_year = None \/ args.filing_status = None)
    \/ op = "load_w2_data" /\ "box1_wages" \notin DOMAIN args.raw
    \/ op = "build_tax_inputs" /\ NoW2Scanned

\* C17 as stated: when the W-2 wages, the filing status or the tax year is
\* absent from the inputs, the call fails with an error; it substitutes
\* neither 0, 'single' nor the current year.
C17_AbsentFieldIsFatal == RequiredFieldAbsent => Failed

\* C17 amended: an absent field is defaulted.  The constructor takes
\* 'single' for a missing filing status and the year of the clock for a
\* missing tax year, and raises only for a filing status that is given and
\* not valid; load_w2_data takes 0 for missing wages and the calculator's
\* year for a missing tax year; build_tax_inputs returns wages of 0 when no
\* W-2 was scanned.
C17_AbsentFieldIsDefaulted ==
    /\ op = "TaxCalculator" =>
          /\ Failed <=> (/\ args.filing_status # None
                         /\ Value(args.filing_status) \notin {"single", "Single", "MFJ", "mfs", "hoh"})
          /\ ~Failed /\ args.filing_status = None => ret.filing_status = "single"
          /\ ~Failed /\ args.tax_year = None => ret.current_year = args.now.year
          /\ ~Failed /\ args.tax_year \notin {None, Some(0)} => ret.current_year = Value(args.tax_year)
    /\ op = "load_w2_data" =>
          /\ "box1_wages" \notin DOMAIN args.raw => ret.wages = 0
          /\ "tax_year" \notin DOMAIN args.raw => ret.tax_year = current_year
          /\ "box1_wages" \in DOMAIN args.raw => ret.wages = args.raw.box1_wages
    /\ op = "build_tax_inputs" /\ NoW2Scanned => ret.w2_wages = 0 /\ ~Failed

\* Stock sales are aggregated with wages of 0 although no W-2 was scanned.
C17_Witness ==
    /\ op = "build_tax_inputs"
    /\ NoW2Scanned
    /\ ret.w2_wages = 0
    /\ ret.stock_results # <<>>

(***************************************************************************)
(* Bonus allocation                                                        *)
(***************************************************************************)
BonusCall ==
    op \in {"calculate_bonus_allocation_proceeds", "calculate_bonus_allocation_proceeds_with_taxes"}

\* The arguments the validation of the bonus allocation rejects.
BonusArgsInvalid ==
    \/ args.rsu_percentage + args.iso_percentage # 100
    \/ args.bonus_amount <= 0
    \/ args.target_price <= 0

\* C18: the bonus allocation, with and without taxes, raises a ValueError
\* and returns no result when the percentages do not sum to 100, the bonus
\* is not positive or the target price is not positive, and it has looked
\* up no price by then; for all other arguments it raises no ValueError.
C18_BonusValidation ==
    BonusCall =>
        IF BonusArgsInvalid
        THEN /\ ret.raises = Some("ValueError")
             /\ "results" \notin DOMAIN ret
             /\ ret.price_lookups = <<>>
        ELSE ret.raises # Some("ValueError")

\* The variant with taxes rejects a target price of 0 for a valid split of
\* a positive bonus granted on a day with a price.
C18_Witness ==
    /\ op = "calculate_bonus_allocation_proceeds_with_taxes"
    /\ args.rsu_percentage = 60
    /\ args.iso_percentage = 40
    /\ args.bonus_amount = 100
    /\ args.target_price = 0
    /\ args.purchase_date \in DOMAIN args.history
    /\ ret.raises = Some("ValueError")
    /\ ret.price_lookups = <<>>

(***************************************************************************)
(* 1099-B totals and lots                                                  *)
(***************************************************************************)
\* The taxable gain of the sales a statement reports: gain or loss plus the
\* disallowed wash sale loss of every lot.
statement_gain(lots) ==
    lots_total(lots, FALSE, 5) + lots_total(lots, FALSE, 4)
        + lots_total(lots, TRUE, 5) + lots_total(lots, TRUE, 4)

RECURSIVE statements_gain(_)
statements_gain(S) ==
    IF S = {} THEN 0
    ELSE LET lots == CHOOSE x \in S : TRUE
         IN  statement_gain(lots) + statements_gain(S \ {lots})

\* sum(r.get('total_gain', 0) for r in stock_results)
RECURSIVE stock_gains(_)
stock_gains(results) ==
    IF results = <<>> THEN 0
    ELSE Head(results).total_gain + stock_gains(Tail(results))

\* The statements the files of a call are pages of.
StatementsOf(files) ==
    { Value(files[k].statement) : k \in {j \in 1..Len(files) : files[j].statement # None} }

\* The text of a file has totals (box lines or "Total ... Term" lines) and
\* lot rows.
HasTotalsAndLots(text) ==
    /\ text.rows # <<>>
    /\ \/ \E b \in DOMAIN text.boxes : text.boxes[b] # None
       \/ \E t \in DOMAIN text.totals : text.totals[t] # None

\* C19 as stated: when totals and lot rows both exist, only the totals
\* reach the aggregator.  parse_1099b returns the totals, one result per
\* term dated 1 January to 31 December, and adds no lot row to them; and
\* the stock_results build_tax_inputs assembles from all scanned 1099-B
\* forms count the sales of every statement once.
C19_TotalsTakePrecedence ==
    /\ op = "scan_form_multi" /\ HasTotalsAndLots(args.file.text) =>
          /\ Len(ret) = 1
          /\ ret[1].form_type = "1099-B"
          /\ \A k \in 1..Len(ret[1].data) :
                 /\ ret[1].data[k].acquired_date.month = 1
                 /\ ret[1].data[k].acquired_date.day = 1
                 /\ ret[1].data[k].sold_date.month = 12
                 /\ ret[1].data[k].sold_date.day = 31
          /\ stock_gains(ret[1].data) = statement_gain(Value(args.file.statement))
    /\ op = "build_tax_inputs" =>
          stock_gains(ret.stock_results) = statements_gain(StatementsOf(args.files))

\* The totals page and the detail page of one statement are scanned as two
\* files, and the lots follow the totals in stock_results.
C19_Witness ==
    /\ op = "build_tax_inputs"
    /\ Len(args.files) = 2
    /\ args.files[1].name = "1099b_p1"
    /\ args.files[2].name = "1099b_p2"
    /\ args.files[1].statement = args.files[2].statement
    /\ Len(Value(args.files[1].statement)) = 2
    /\ Len(ret.stock_results) = 4
    /\ stock_gains(ret.stock_results) = 2 * statement_gain(Value(args.files[1].statement))

(***************************************************************************)
(* Schedule A                                                              *)
(***************************************************************************)
\* The SALT cap in dollars of a tax year and a filing status.
SaltCap(year, status) ==
    IF year >= 2025 THEN (IF status = "mfs" THEN 20000 ELSE 40000)
    ELSE (IF status = "mfs" THEN 5000 ELSE 10000)

\* C20: total_itemized is mortgage_interest * (1 - rental_pct)
\* + min(state_income_tax + property_taxes * (1 - rental_pct), cap) + the
\* mortgage insurance after the phase-out; the cap is 40,000 (20,000 for
\* mfs) from 2025 on and 10,000 (5,000 for mfs) before; salt_limited holds
\* exactly when the uncapped SALT amount exceeds the cap; and the result
\* reports the components and the total, with no choice between itemized
\* and standard.
C20_ItemizedTotal ==
    op = "calculate_itemized_deductions" =>
        LET personal == 100 - args.rental_pct
            cap == Cents(SaltCap(args.self.current_year, args.self.filing_status))
            uncapped == Cents(args.state_income_tax) + args.property_taxes * personal
            fixed == args.mortgage_interest * personal + Min(uncapped, cap)
            ins == ret.mortgage_insurance
            total == ret.total_itemized
        IN  /\ total[1] * ins[2] = (fixed * ins[2] + ins[1]) * total[2]
            /\ ret.salt_cap = cap
            /\ ret.salt_limited <=> uncapped > cap
            /\ ins[1] >= 0 /\ ins[1] <= args.mortgage_insurance * personal * ins[2]
            /\ DOMAIN ret = {"mortgage_interest", "salt_state_income_tax", "salt_property_taxes", "salt_uncapped", "salt_deduction", "salt_cap", "salt_limited", "mortgage_insurance", "mortgage_insurance_phased_out", "total_itemized"}

\* A married-filing-separately return of 2026 with a quarter of the house
\* rented: the SALT amount is capped at 20,000 and the mortgage insurance
\* is in the phase-out band.
C20_Witness ==
    /\ op = "calculate_itemized_deductions"
    /\ args.self.current_year = 2026
    /\ args.self.filing_status = "mfs"
    /\ args.rental_pct = 25
    /\ args.agi = 105000
    /\ args.mortgage_insurance = 600
    /\ ret.salt_limited
    /\ ret.salt_deduction = 2000000
    /\ ret.mortgage_insurance = <<22500, 1>>

(***************************************************************************)
(* Mortgage insurance phase-out                                            *)
(***************************************************************************)
\* The mortgage insurance (a fraction of cents) of the call at the AGI agi.
InsuranceAt(agi) ==
    calculate_itemized_deductions(args.self, args.mortgage_interest, args.property_taxes, args.state_income_tax, args.mortgage_insurance, args.rental_pct, agi).mortgage_insurance

\* The phase-out of the personal-use mortgage insurance: full up to an AGI
\* of 100,000, linear to zero across the band to 110,000, zero from there,
\* and non-increasing in AGI.
PhaseOut ==
    LET full == args.mortgage_insurance * (100 - args.rental_pct)
        ins == ret.mortgage_insurance
    IN  /\ args.agi <= 100000 => ins[1] = full * ins[2]
        /\ args.agi > 100000 /\ args.agi < 110000 =>
               ins[1] * 10000 = full * (110000 - args.agi) * ins[2]
        /\ args.agi >= 110000 => ins[1] = 0
        /\ \A agi \in ItemizedAgis :
               agi >= args.agi =>
                   InsuranceAt(agi)[1] * ins[2] <= ins[1] * InsuranceAt(agi)[2]

\* C21 as stated: for every tax year and every AGI the personal-use
\* mortgage insurance is deductible in full up to an AGI of 100,000, reduced
\* linearly to zero between 100,000 and 110,000, zero from 110,000 on, and
\* non-increasing in AGI.
C21_InsurancePhaseOutEveryYear ==
    op = "calculate_itemized_deductions" => PhaseOut

\* C21 amended: the phase-out applies to the tax years from 2026 on; for
\* an earlier tax year the mortgage insurance deduction is 0 at every AGI.
C21_InsurancePhaseOutFrom2026 ==
    op = "calculate_itemized_deductions" =>
        IF args.self.current_year >= 2026 THEN PhaseOut
        ELSE ret.mortgage_insurance[1] = 0

\* A 2026 return one dollar below the end of the band: 600.00 of mortgage
\* insurance are deductible with 0.06.
C21_Witness ==
    /\ op = "calculate_itemized_deductions"
    /\ args.self.current_year = 2026
    /\ args.agi = 109999
    /\ args.mortgage_insurance = 600
    /\ args.rental_pct = 0
    /\ ret.mortgage_insurance = <<6, 1>>

(***************************************************************************)
(* Bonus allocation with an unresolved price                               *)
(***************************************************************************)
\* The price of the purchase date of a bonus call cannot be fetched.
BonusPriceUnresolved ==
    /\ BonusCall
    /\ ~BonusArgsInvalid
    /\ get_stock_price(args.history, args.purchase_date) = 0

\* C30: when the historical price of the purchase date cannot be fetched,
\* the bonus allocation raises ValueError and computes no shares or
\* proceeds; it never divides an allocation by the unresolved (zero) price.
C30_UnresolvedPriceRaisesValueError ==
    BonusPriceUnresolved =>
        /\ ret.raises = Some("ValueError")
        /\ "results" \notin DOMAIN ret

\* A valid split of a positive bonus on a day without a price ends in the
\* division by zero.
C30_Witness ==
    /\ op = "calculate_bonus_allocation_proceeds"
    /\ BonusPriceUnresolved
    /\ args.rsu_percentage = 60
    /\ args.bonus_amount = 100
    /\ args.target_price = 30
    /\ ret.raises = Some("ZeroDivisionError")
    /\ ret.price_lookups = <<args.purchase_date>>

(***************************************************************************)
(* C25: the surtax and the total liability under capital losses            *)
(***************************************************************************)
LiabilityCall == op = "calculate_total_tax_liability"

HasCapitalLoss ==
    \E i \in 1..Len(args.stock_results) :
        args.stock_results[i].capital_gain_portion < 0

\* C25: for non-negative wages and interest, also with stock results whose
\* capital_gain_portion is a loss, the niit and the total_tax_liability that
\* calculate_total_tax_liability returns are never negative.
C25_TaxNeverNegative ==
    (LiabilityCall /\ args.w2_wages >= 0 /\ args.interest_income >= 0)
        => ret.niit >= 0 /\ ret.total_tax_liability >= 0

\* A long-term loss larger than the wages: the surtax base is the negative
\* net investment income, and the whole liability is negative.
C25_Witness ==
    /\ LiabilityCall
    /\ HasCapitalLoss
    /\ args.w2_wages = 10000
    /\ args.interest_income = 0
    /\ ret.net_investment_income = -20000
    /\ ret.niit = -20000 * niit_rate
    /\ ret.total_tax_liability < 0

(***************************************************************************)
(* C26: taxable income against AGI less the deduction                      *)
(***************************************************************************)
\* C26: total_taxable_income (taxable_ordinary_income + taxable_ltcg) of
\* every result of calculate_total_tax_liability equals
\* max(0, AGI - deduction_amount), whatever the sign of the gain totals.
C26_TaxableIncomeIsAgiLessDeduction ==
    LiabilityCall =>
        /\ ret.total_taxable_income
               = ret.taxable_ordinary_income + ret.taxable_ltcg
        /\ ret.total_taxable_income = Max(0, ret.agi - ret.deduction_amount)

\* A net long-term loss is dropped by the clamp of taxable_ltcg, so the
\* taxable income stays above AGI less the deduction.
C26_Witness ==
    /\ LiabilityCall
    /\ ret.total_long_term_gains < 0
    /\ ret.taxable_ltcg = 0
    /\ ret.total_taxable_income > Max(0, ret.agi - ret.deduction_amount)

(***************************************************************************)
(* C23: the California liability                                           *)
(***************************************************************************)
CaCall == op = "calculate_ca_state_tax"

CaIncomeSum ==
    args.w2_state_wages + args.interest_income + args.stock_short_term_gains
        + args.stock_long_term_gains + args.net_rental_income

CaDeductionRule ==
    IF /\ args.ca_itemized_deductions # None
       /\ Value(args.ca_itemized_deductions) > ca_standard_deduction
    THEN Value(args.ca_itemized_deductions)
    ELSE ca_standard_deduction

\* C23: calculate_ca_state_tax depends on its five income arguments only
\* through their sum; ca_tax is the California schedule on
\* max(0, sum - deduction) plus 1% of the taxable income above 1,000,000,
\* which is the amount reported as ca_mental_health_tax; the deduction is
\* the supplied itemized amount only when it exceeds the California standard
\* deduction.
C23_CaTaxOfIncomeSum ==
    CaCall =>
        LET taxable == Max(0, CaIncomeSum - CaDeductionRule)
        IN  /\ ret = calculate_ca_state_tax(CaIncomeSum, 0, 0, 0, 0,
                         args.ca_itemized_deductions,
                         args.state_tax_withheld, args.ca_sdi_withheld)
            /\ ret.ca_deduction = CaDeductionRule
            /\ ret.ca_taxable_income = taxable
            /\ ret.ca_mental_health_tax
                   = Max(0, taxable - ca_mental_health_threshold)
                         * ca_mental_health_rate
            /\ ret.ca_tax
                   = apply_progressive(taxable, ca_tax_brackets).tax
                         + ret.ca_mental_health_tax

\* Income from all five sources over 1,000,000 after an itemized deduction.
C23_Witness ==
    /\ CaCall
    /\ args.w2_state_wages = 1200000
    /\ args.interest_income = 3000
    /\ args.stock_short_term_gains = -7000
    /\ args.stock_long_term_gains = 60000
    /\ args.net_rental_income = 20000
    /\ args.ca_itemized_deductions = Some(30000)
    /\ ret.ca_deduction = 30000
    /\ ret.ca_taxable_income = 1246000
    /\ ret.ca_mental_health_tax = 246000 * ca_mental_health_rate

(***************************************************************************)
(* C24: the liability calls leave the calculator as constructed            *)
(***************************************************************************)
\* The tables, deductions and thresholds the constructor loaded.
AsConstructed ==
    /\ tax_brackets = brackets_by_status[filing_status]
    /\ capital_gains_brackets = ltcg_by_status[filing_status]
    /\ standard_deduction = std_deduction_by_status[filing_status]
    /\ niit_threshold = niit_by_status[filing_status]
    /\ ca_tax_brackets = ca_brackets_by_status[filing_status]
    /\ ca_standard_deduction = ca_std_deduction_by_status[filing_status]

\* What a call of the named method returns for the recorded arguments on the
\* calculator as it is in the state where this is evaluated.
LiabilityResult(method, a) ==
    IF method = "calculate_total_tax_liability"
    THEN calculate_total_tax_liability(a.w2_wages, a.federal_tax_withheld,
             a.stock_results, a.deduction_amount, a.estimated_payments,
             a.stock_tax_withheld, a.interest_income, a.rental_result,
             a.itemized_result)
    ELSE calculate_ca_state_tax(a.w2_state_wages, a.interest_income,
             a.stock_short_term_gains, a.stock_long_term_gains,
             a.net_rental_income, a.ca_itemized_deductions,
             a.state_tax_withheld, a.ca_sdi_withheld)

LiabilityMethods == {"calculate_total_tax_liability", "calculate_ca_state_tax"}

RentalCall == op = "calculate_rental_income"

\* The sum of the eight full-property expense amounts of the call.
FullExpenses ==
    args.mortgage_interest + args.property_taxes + args.mortgage_insurance
        + args.hoa + args.insurance + args.supplies + args.electricity
        + args.telephone

\* 82,500 times the depreciation in dollars:
\* 0.80 * price * pct / 27.5 * (12 - month + 0.5) / 12
\*     = price * pct% * (25 - 2 * month) / 82500
Depreciation82500 ==
    IF args.home_purchase_price > 0
    THEN args.home_purchase_price * args.rental_pct
             * (25 - 2 * args.rental_start_month)
    ELSE 0

\* C22: net_rental_income = (rental_income + other_rental_income)
\* - rental_pct * (sum of the full-property expenses) - depreciation, with
\* depreciation = (0.80 * home_purchase_price * rental_pct / 27.5)
\* * (12 - rental_start_month + 0.5) / 12 for a positive purchase price and 0
\* otherwise; the net amount is not clamped at zero.
C22_NetRentalIncome ==
    RentalCall =>
        /\ ret.expenses.depreciation = reduce(Depreciation82500, 82500)
        /\ ret.net_rental_income
               = reduce(82500 * (args.rental_income + args.other_rental_income)
                            - 825 * args.rental_pct * FullExpenses
                            - Depreciation82500,
                        82500)

\* A fifth of the house let from April for no rent: the loss is the allocated
\* expenses and 8.5 months of depreciation.
C22_Witness ==
    /\ RentalCall
    /\ args.rental_pct = 20
    /\ args.rental_income = 0
    /\ args.other_rental_income = 500
    /\ args.home_purchase_price = 330000
    /\ args.rental_start_month = 4
    /\ ret.expenses.depreciation = <<1360, 1>>
    /\ ret.net_rental_income[1] < 0

(***************************************************************************)
(* C27: the gain overrides of run_annual_taxes                             *)
(***************************************************************************)
AnnualCall == op = "run_annual_taxes"

GainOverridden == args.cli.st_gains # None \/ args.cli.lt_gains # None

\* C27: when --st-gains or --lt-gains is given, the override replaces the
\* 1099-B gain in the whole computation: the federal and the California
\* liability are computed from the same gain amounts, the overridden ones.
C27_OverrideReachesBothLiabilities ==
    (AnnualCall /\ GainOverridden) =>
        /\ args.cli.st_gains # None => ret.st_gains = Value(args.cli.st_gains)
        /\ args.cli.lt_gains # None => ret.lt_gains = Value(args.cli.lt_gains)
        /\ ret.ca_result.ca_total_income
               = Get(args.w2, "state_wages", args.w2.wages)
                     + args.interest.total_interest + ret.st_gains
                     + ret.lt_gains + ret.liability.net_rental_income
        /\ ret.liability.stock_short_term_gains = ret.st_gains
        /\ ret.liability.stock_long_term_gains = ret.lt_gains

\* One short-term lot of 9,000 on the 1099-B and --st-gains 5000: California
\* is computed from 5,000, the federal liability from 9,000.
C27_Witness ==
    /\ AnnualCall
    /\ args.cli.st_gains = Some(5000)
    /\ args.cli.lt_gains = None
    /\ args.cli.rental_pct = 20
    /\ Len(args.stock_results) = 1
    /\ ~args.stock_results[1].is_long_term
    /\ ret.st_gains = 5000
    /\ ret.ca_result.ca_total_income
           = 155000 + args.interest.total_interest + 5000 + 8247
    /\ ret.liability.stock_short_term_gains = 9000

(***************************************************************************)
(* C29: the federal report of run_annual_taxes                             *)
(***************************************************************************)
\* C29: generate_tax_liability_report completes without error for the
\* liability of every rental_result the callers pass, in particular in
\* run_annual_taxes with rental_pct = 0, where the rental result is the
\* placeholder {'net_rental_income': 0, 'depreciation': 0}.
C29_ReportCompletes ==
    AnnualCall =>
        /\ ret.federal_report.raises = None
        /\ "sections" \in DOMAIN ret.federal_report

\* Without a rental the placeholder is a non-empty record, the report enters
\* its Schedule E section and fails on the first key.
C29_Witness ==
    /\ AnnualCall
    /\ args.cli.rental_pct = 0
    /\ ret.liability.rental_detail
           = Some([net_rental_income |-> 0, depreciation |-> 0])
    /\ ret.federal_report = [raises |-> Some("KeyError"), key |-> "rental_pct"]

(***************************************************************************)
(* C28: planned sales in the mid-year projection                           *)
(***************************************************************************)
MidyearCall == op = "calculate_midyear"

\* The sum of proceeds - cost_basis over the planned sales of one term
RECURSIVE PlannedGain(_, _, _)
PlannedGain(planned_sales, long, k) ==
    IF k > Len(planned_sales) THEN 0
    ELSE (IF Get(planned_sales[k], "is_long_term", FALSE) = long
          THEN planned_sales[k].proceeds - planned_sales[k].cost_basis
          ELSE 0)
         + PlannedGain(planned_sales, long, k + 1)

\* C28: in the mid-year projection every planned sale contributes
\* proceeds - cost_basis to the federal short-term or long-term gains
\* according to is_long_term, and the federal liability counts the same gain
\* amounts as the California one.
C28_PlannedSalesReachFederalGains ==
    MidyearCall =>
        /\ ret.st_gains = PlannedGain(args.planned_sales, FALSE, 1)
        /\ ret.lt_gains = PlannedGain(args.planned_sales, TRUE, 1)
        /\ ret.liability.stock_short_term_gains = ret.st_gains
        /\ ret.liability.stock_long_term_gains = ret.lt_gains

\* A long-term sale with a gain of 30,000 and a short-term one with 9,000:
\* California is computed from both, the federal gains are 0.
C28_Witness ==
    /\ MidyearCall
    /\ args.planned_sales
           = <<[proceeds |-> 50000, cost_basis |-> 20000,
                is_long_term |-> TRUE],
               [proceeds |-> 30000, cost_basis |-> 21000,
                is_long_term |-> FALSE]>>
    /\ args.paystub.ytd_gross_wages = 50000
    /\ ret.lt_gains = 30000
    /\ ret.st_gains = 9000
    /\ ret.ca_result # None
    /\ Value(ret.ca_result).ca_total_income
           = ret.liability.w2_wages + 3000 + 39000
    /\ ret.liability.stock_long_term_gains = 0
    /\ ret.liability.stock_short_term_gains = 0
    /\ ret.liability.agi = ret.liability.w2_wages + 3000

====
